---- MODULE Spec2Model ----
(***************************************************************************)
(* A model of the mini-compilador pipeline: Lexer, Parser,                 *)
(* SymbolTable / SymbolTableBuilder, CodeGenerator and the two Python      *)
(* translators.                                                            *)
(*                                                                         *)
(* Data conventions                                                        *)
(*   - a Python str is a sequence of one-character strings;                *)
(*     a character outside ASCII is kept by a name ("SUP2", "oacute");      *)
(*   - a Python value (None, int, float, str, bool) is a record            *)
(*     [type, n, s]: n carries an int or bool, s a str, the digits of a    *)
(*     float or the items of a list;                                       *)
(*   - object references (Scope, Symbol) are 1-based indices into the      *)
(*     sequence that owns the objects, 0 is the None reference;            *)
(*   - an absent AST child (None) is the node [node |-> "None"];           *)
(*   - an exception is a record [kind, msg]; kind "None" is "no exception".*)
(***************************************************************************)
EXTENDS Integers, Sequences, FiniteSets, TLC

VARIABLES
    symbol_table,   \* SymbolTable: scopes, current_scope, scope_counter, all_symbols
    builder,        \* SymbolTableBuilder: errors, current_function, position in build()
    call,           \* history: the last call made, its arguments and the exception it raised
    lexer,          \* Lexer: source_code, position, line, column, tokens
    parser,         \* Parser: tokens, current, errors, statements parsed so far
    translator,     \* CodeGenerator output and the translator reading it
    pipeline        \* the driver of main.py: its position, the stages it has called

vars == <<symbol_table, builder, call, lexer, parser, translator, pipeline>>

(***************************************************************************)
(* Bounds of the model                                                     *)
(***************************************************************************)
MaxScopes == 2      \* scopes entered in a run of the SymbolTable interface
MaxSymbols == 2     \* symbols declared in a run of the SymbolTable interface
MaxStmts == 2       \* top-level statements of a program given to build()

(***************************************************************************)
(* Python values                                                           *)
(***************************************************************************)
PyNone == [type |-> "NoneType", n |-> 0, s |-> <<>>]
PyInt(k) == [type |-> "int", n |-> k, s |-> <<>>]
PyFloat(digits) == [type |-> "float", n |-> 0, s |-> digits]
PyStr(chars) == [type |-> "str", n |-> 0, s |-> chars]
PyBool(b) == [type |-> "bool", n |-> IF b THEN 1 ELSE 0, s |-> <<>>]
PyList(items) == [type |-> "list", n |-> 0, s |-> items]

\* Python truthiness of a value (`if value:`)
Truthy(v) ==
    CASE v.type = "NoneType" -> FALSE
      [] v.type = "int" -> v.n # 0
      [] v.type = "bool" -> v.n # 0
      [] v.type = "float" -> \E i \in 1..Len(v.s) : v.s[i] \notin {"0", "."}
      [] v.type \in {"str", "list"} -> v.s # <<>>

(***************************************************************************)
(* Exceptions and messages                                                 *)
(***************************************************************************)
Msg(text, name) == [text |-> text, name |-> name]
NoException == [kind |-> "None", msg |-> Msg("", <<>>)]
SymbolTableError(text, name) == [kind |-> "SymbolTableError", msg |-> Msg(text, name)]
Raised(e) == e.kind # "None"

(***************************************************************************)
(* symbol_table.py                                                         *)
(***************************************************************************)
Symbol(name, symbol_type, data_type, scope, line, column, value, is_initialized, parameters) ==
    [name |-> name, symbol_type |-> symbol_type, data_type |-> data_type,
     scope |-> scope, line |-> line, column |-> column, value |-> value,
     is_initialized |-> is_initialized, parameters |-> parameters]

\* Scope.__init__: symbols is an empty dict (name -> Symbol reference)
Scope(level, parent) ==
    [level |-> level, parent |-> parent, symbols |-> <<>>, children |-> <<>>]

\* SymbolTable.__init__: the global scope is scopes[1]
SymbolTable ==
    [scopes |-> <<Scope(0, 0)>>, current_scope |-> 1, scope_counter |-> 0,
     all_symbols |-> <<>>]

infer_data_type(value) ==
    CASE value.type = "bool" -> "boolean"
      [] value.type = "int" -> "int"
      [] value.type = "float" -> "float"
      [] value.type = "str" -> "string"
      [] OTHER -> "unknown"

\* Scope.add_symbol, with `ref` the reference of the Symbol object being added
add_symbol_overwrite(scope, name, ref) ==
    [scope |-> [scope EXCEPT !.symbols =
                    [n \in (DOMAIN scope.symbols) \cup {name} |->
                        IF n = name THEN ref ELSE scope.symbols[n]]],
     raised |-> NoException]

add_symbol(scope, name, ref) ==
    IF name \in DOMAIN scope.symbols
    THEN [scope |-> scope,
          raised |-> SymbolTableError("Simbolo ya esta declarado en este ambito", name)]
    ELSE [scope |-> [scope EXCEPT !.symbols = @ @@ (name :> ref)],
          raised |-> NoException]

\* Scope.lookup_local: the Symbol reference, 0 for None
lookup_local(scope, name) ==
    IF name \in DOMAIN scope.symbols THEN scope.symbols[name] ELSE 0

\* Scope.lookup, on the scope with reference s of table T
RECURSIVE Scope_lookup(_, _, _)
Scope_lookup(T, s, name) ==
    LET symbol == lookup_local(T.scopes[s], name)
    IN  IF symbol # 0 THEN symbol
        ELSE IF T.scopes[s].parent # 0 THEN Scope_lookup(T, T.scopes[s].parent, name)
        ELSE 0

\* a lookup that would see the global scope only
lookup_global_only(T, name) == Scope_lookup(T, 1, name)

\* SymbolTable.lookup
lookup(T, name) == Scope_lookup(T, T.current_scope, name)

enter_scope(T) ==
    LET counter == T.scope_counter + 1
        new_scope == Len(T.scopes) + 1
    IN  [T EXCEPT !.scope_counter = counter,
                  !.scopes = Append([@ EXCEPT ![T.current_scope].children =
                                                 Append(@, new_scope)],
                                    Scope(counter, T.current_scope)),
                  !.current_scope = new_scope]

exit_scope_unguarded(T) ==
    [table |-> [T EXCEPT !.current_scope =
                    IF T.scopes[T.current_scope].parent # 0
                    THEN T.scopes[T.current_scope].parent ELSE Len(T.scopes)],
     raised |-> NoException]

exit_scope(T) ==
    IF T.scopes[T.current_scope].parent # 0
    THEN [table |-> [T EXCEPT !.current_scope = T.scopes[T.current_scope].parent],
          raised |-> NoException]
    ELSE [table |-> T,
          raised |-> SymbolTableError("No se puede salir del ambito global", <<>>)]

\* the common tail of declare_variable / declare_function / declare_parameter:
\* self.current_scope.add_symbol(symbol); self.all_symbols.append(symbol)
declare_symbol(T, symbol) ==
    LET a == add_symbol(T.scopes[T.current_scope], symbol.name, Len(T.all_symbols) + 1)
    IN  IF Raised(a.raised) THEN [table |-> T, raised |-> a.raised]
        ELSE [table |-> [T EXCEPT !.scopes[T.current_scope] = a.scope,
                                  !.all_symbols = Append(@, symbol)],
              raised |-> NoException]

declare_variable(T, name, data_type, symbol_type, line, column, value) ==
    declare_symbol(T, Symbol(name, symbol_type, data_type,
                             T.scopes[T.current_scope].level, line, column,
                             value, value # PyNone, PyNone))

declare_function(T, name, return_type, parameters, line, column) ==
    declare_symbol(T, Symbol(name, "FUNCTION", return_type,
                             T.scopes[T.current_scope].level, line, column,
                             PyNone, FALSE, parameters))

declare_parameter(T, name, data_type, line, column) ==
    declare_symbol(T, Symbol(name, "PARAMETER", data_type,
                             T.scopes[T.current_scope].level, line, column,
                             PyNone, TRUE, PyNone))

update_symbol_value_unchecked(T, name, value) ==
    LET symbol == lookup(T, name)
    IN  IF symbol = 0
        THEN [table |-> T, raised |-> SymbolTableError("Variable no declarada", name)]
        ELSE [table |-> [T EXCEPT !.all_symbols[symbol].value = value,
                                  !.all_symbols[symbol].is_initialized = TRUE],
              raised |-> NoException]

update_symbol_value(T, name, value) ==
    LET symbol == lookup(T, name)
    IN  IF symbol = 0
        THEN [table |-> T, raised |-> SymbolTableError("Variable no declarada", name)]
        ELSE IF T.all_symbols[symbol].symbol_type = "CONSTANT"
        THEN [table |-> T,
              raised |-> SymbolTableError("No se puede modificar la constante", name)]
        ELSE [table |-> [T EXCEPT !.all_symbols[symbol].value = value,
                                  !.all_symbols[symbol].is_initialized = TRUE],
              raised |-> NoException]

(***************************************************************************)
(* ast_nodes.py                                                            *)
(***************************************************************************)
NoneNode == [node |-> "None"]
IsNone(n) == n.node = "None"

VarDeclaration(var_type, identifier, initializer) ==
    [node |-> "VarDeclaration", var_type |-> var_type, identifier |-> identifier,
     initializer |-> initializer]
FunctionDeclaration(name, params, body) ==
    [node |-> "FunctionDeclaration", name |-> name, params |-> params, body |-> body]
BlockStatement(statements) == [node |-> "BlockStatement", statements |-> statements]
IfStatement(condition, then_branch, else_branch) ==
    [node |-> "IfStatement", condition |-> condition, then_branch |-> then_branch,
     else_branch |-> else_branch]
WhileStatement(condition, body) ==
    [node |-> "WhileStatement", condition |-> condition, body |-> body]
ForStatement(init, condition, update, body) ==
    [node |-> "ForStatement", init |-> init, condition |-> condition,
     update |-> update, body |-> body]
ReturnStatement(value) == [node |-> "ReturnStatement", value |-> value]
PrintStatement(expression) == [node |-> "PrintStatement", expression |-> expression]
ExpressionStatement(expression) ==
    [node |-> "ExpressionStatement", expression |-> expression]
BinaryExpression(left, operator, right) ==
    [node |-> "BinaryExpression", left |-> left, operator |-> operator, right |-> right]
UnaryExpression(operator, operand) ==
    [node |-> "UnaryExpression", operator |-> operator, operand |-> operand]
AssignmentExpression(identifier, value) ==
    [node |-> "AssignmentExpression", identifier |-> identifier, value |-> value]
CallExpression(callee, arguments) ==
    [node |-> "CallExpression", callee |-> callee, arguments |-> arguments]
Identifier(name) == [node |-> "Identifier", name |-> name]
\* the literal nodes hold the converted Python value
NumberLiteralNode(value) == [node |-> "NumberLiteral", value |-> value]
StringLiteral(value) == [node |-> "StringLiteral", value |-> PyStr(value)]
BooleanLiteral(value) == [node |-> "BooleanLiteral", value |-> PyBool(value)]

\* hasattr(node, 'name')
HasName(n) == n.node \in {"Identifier", "FunctionDeclaration"}

(***************************************************************************)
(* symbol_table_builder.py                                                 *)
(* B is the builder: [symbol_table, errors, current_function, raised];     *)
(* raised holds a SymbolTableError on its way up to the enclosing handler: *)
(* while it is set every visit is skipped.                                 *)
(***************************************************************************)
SymbolTableBuilder ==
    [symbol_table |-> SymbolTable, errors |-> <<>>, current_function |-> PyNone,
     raised |-> NoException]

str_const == <<"c", "o", "n", "s", "t">>
str_var == <<"v", "a", "r">>

_evaluate_expression(B, expr) ==
    CASE expr.node \in {"NumberLiteral", "StringLiteral", "BooleanLiteral"} -> expr.value
      [] expr.node = "Identifier" ->
            LET symbol == lookup(B.symbol_table, expr.name)
            IN  IF symbol # 0 /\ B.symbol_table.all_symbols[symbol].is_initialized
                THEN B.symbol_table.all_symbols[symbol].value
                ELSE PyNone
      [] OTHER -> PyNone

\* self.symbol_table.enter_scope()
B_enter_scope(B) ==
    IF Raised(B.raised) THEN B ELSE [B EXCEPT !.symbol_table = enter_scope(@)]

\* self.symbol_table.exit_scope(), outside any try block
B_exit_scope(B) ==
    IF Raised(B.raised) THEN B
    ELSE LET x == exit_scope(B.symbol_table)
         IN  [B EXCEPT !.symbol_table = x.table, !.raised = x.raised]

\* the loop `for param in node.params: declare_parameter(...)`
RECURSIVE declare_parameters(_, _)
declare_parameters(T, params) ==
    IF params = <<>> THEN [table |-> T, raised |-> NoException]
    ELSE LET d == declare_parameter(T, Head(params), "unknown", 1, 1)
         IN  IF Raised(d.raised) THEN d ELSE declare_parameters(d.table, Tail(params))

visit_var_declaration(B, node) ==
    LET value == IF ~IsNone(node.initializer)
                 THEN _evaluate_expression(B, node.initializer) ELSE PyNone
        data_type == IF value # PyNone THEN infer_data_type(value) ELSE "unknown"
        symbol_type == IF node.var_type = str_const THEN "CONSTANT" ELSE "VARIABLE"
        d == declare_variable(B.symbol_table, node.identifier, data_type,
                              symbol_type, 1, 1, value)
    IN  IF Raised(d.raised) THEN [B EXCEPT !.errors = Append(@, d.raised.msg)]
        ELSE [B EXCEPT !.symbol_table = d.table]

visit_identifier(B, node) ==
    IF lookup(B.symbol_table, node.name) = 0
    THEN [B EXCEPT !.errors = Append(@, Msg("Identificador no declarado", node.name))]
    ELSE B

\* the part of visit_assignment_expression before `node.value.accept(self)`
assignment_check(B, node) ==
    LET symbol == lookup(B.symbol_table, node.identifier)
        value == _evaluate_expression(B, node.value)
        u == update_symbol_value(B.symbol_table, node.identifier, value)
    IN  IF symbol = 0
        THEN [B EXCEPT !.errors = Append(@, Msg("Variable no declarada", node.identifier))]
        ELSE IF B.symbol_table.all_symbols[symbol].symbol_type = "CONSTANT"
        THEN [B EXCEPT !.errors =
                 Append(@, Msg("No se puede modificar la constante", node.identifier))]
        ELSE IF Raised(u.raised) THEN [B EXCEPT !.errors = Append(@, u.raised.msg)]
        ELSE [B EXCEPT !.symbol_table = u.table]

\* the part of visit_call_expression before `node.callee.accept(self)`
call_check(B, node) ==
    IF HasName(node.callee)
    THEN LET symbol == lookup(B.symbol_table, node.callee.name)
         IN  IF symbol = 0
             THEN [B EXCEPT !.errors =
                      Append(@, Msg("Funcion no declarada", node.callee.name))]
             ELSE IF B.symbol_table.all_symbols[symbol].symbol_type # "FUNCTION"
             THEN [B EXCEPT !.errors = Append(@, Msg("no es una funcion", node.callee.name))]
             ELSE B
    ELSE B

RECURSIVE visit(_, _)
RECURSIVE visit_all(_, _)
RECURSIVE visit_scoped(_, _)
RECURSIVE visit_function_declaration(_, _)

\* `for stmt in statements: stmt.accept(self)`
visit_all(B, nodes) ==
    IF nodes = <<>> THEN B ELSE visit_all(visit(B, Head(nodes)), Tail(nodes))

\* a branch or loop body: a new scope around it unless it is a BlockStatement
visit_scoped(B, node) ==
    IF node.node # "BlockStatement"
    THEN B_exit_scope(visit(B_enter_scope(B), node))
    ELSE visit(B, node)

visit_function_declaration(B, node) ==
    LET d == declare_function(B.symbol_table, node.name, "unknown", PyList(node.params), 1, 1)
        T1 == enter_scope(d.table)
        p == declare_parameters(T1, node.params)
        B1 == [B EXCEPT !.symbol_table = p.table, !.current_function = PyStr(node.name)]
        B2 == visit(B1, node.body)
        x == exit_scope(B2.symbol_table)
    IN  IF Raised(d.raised) THEN [B EXCEPT !.errors = Append(@, d.raised.msg)]
        ELSE IF Raised(p.raised)
        THEN [B1 EXCEPT !.errors = Append(@, p.raised.msg)]
        ELSE IF Raised(B2.raised)
        THEN [B2 EXCEPT !.errors = Append(@, B2.raised.msg), !.raised = NoException]
        ELSE IF Raised(x.raised)
        THEN [B2 EXCEPT !.errors = Append(@, x.raised.msg)]
        ELSE [B2 EXCEPT !.symbol_table = x.table, !.current_function = PyNone]

\* node.accept(self)
visit(B, node) ==
    IF Raised(B.raised) THEN B
    ELSE CASE node.node = "VarDeclaration" -> visit_var_declaration(B, node)
           [] node.node = "FunctionDeclaration" -> visit_function_declaration(B, node)
           [] node.node = "BlockStatement" ->
                B_exit_scope(visit_all(B_enter_scope(B), node.statements))
           [] node.node = "IfStatement" ->
                LET B1 == visit_scoped(visit(B, node.condition), node.then_branch)
                IN  IF ~IsNone(node.else_branch) THEN visit_scoped(B1, node.else_branch)
                    ELSE B1
           [] node.node = "WhileStatement" ->
                visit_scoped(visit(B, node.condition), node.body)
           [] node.node = "ForStatement" ->
                B_exit_scope(
                    visit_scoped(
                        visit(visit(visit(B_enter_scope(B), node.init), node.condition),
                              node.update),
                        node.body))
           [] node.node = "ReturnStatement" -> visit(B, node.value)
           [] node.node = "PrintStatement" -> visit(B, node.expression)
           [] node.node = "ExpressionStatement" -> visit(B, node.expression)
           [] node.node = "BinaryExpression" -> visit(visit(B, node.left), node.right)
           [] node.node = "UnaryExpression" -> visit(B, node.operand)
           [] node.node = "AssignmentExpression" ->
                visit(assignment_check(B, node), node.value)
           [] node.node = "CallExpression" ->
                visit_all(visit(call_check(B, node), node.callee), node.arguments)
           [] node.node = "Identifier" -> visit_identifier(B, node)
           \* literals, and an absent child (`if node.value:` and the like)
           [] OTHER -> B

(***************************************************************************)
(* tokens.py                                                               *)
(*   A character is a one-character string; a character that cannot be     *)
(*   written in a string is written by its name ("SUP2" is U+00B2).        *)
(***************************************************************************)
Token(type, value, line, column) ==
    [type |-> type, value |-> value, line |-> line, column |-> column]

KEYWORDS ==
    {[word |-> <<"i", "f">>, type |-> "IF"],
     [word |-> <<"e", "l", "s", "e">>, type |-> "ELSE"],
     [word |-> <<"w", "h", "i", "l", "e">>, type |-> "WHILE"],
     [word |-> <<"f", "o", "r">>, type |-> "FOR"],
     [word |-> <<"f", "u", "n", "c", "t", "i", "o", "n">>, type |-> "FUNCTION"],
     [word |-> <<"r", "e", "t", "u", "r", "n">>, type |-> "RETURN"],
     [word |-> <<"v", "a", "r">>, type |-> "VAR"],
     [word |-> <<"c", "o", "n", "s", "t">>, type |-> "CONST"],
     [word |-> <<"p", "r", "i", "n", "t">>, type |-> "PRINT"],
     [word |-> <<"i", "n", "t">>, type |-> "INT"],
     [word |-> <<"f", "l", "o", "a", "t">>, type |-> "FLOAT"],
     [word |-> <<"s", "t", "r", "i", "n", "g">>, type |-> "STRING"],
     [word |-> <<"b", "o", "o", "l", "e", "a", "n">>, type |-> "BOOLEAN"],
     [word |-> <<"t", "r", "u", "e">>, type |-> "TRUE"],
     [word |-> <<"f", "a", "l", "s", "e">>, type |-> "FALSE"]}

\* KEYWORDS.get(word, TokenType.IDENTIFIER)
KEYWORDS_get(word) ==
    IF \E k \in KEYWORDS : k.word = word
    THEN (CHOOSE k \in KEYWORDS : k.word = word).type
    ELSE "IDENTIFIER"

(***************************************************************************)
(* Python str methods on characters                                        *)
(***************************************************************************)
LowerCase ==
    <<"a", "b", "c", "d", "e", "f", "g", "h", "i", "j", "k", "l", "m",
      "n", "o", "p", "q", "r", "s", "t", "u", "v", "w", "x", "y", "z">>
UpperCase ==
    <<"A", "B", "C", "D", "E", "F", "G", "H", "I", "J", "K", "L", "M",
      "N", "O", "P", "Q", "R", "S", "T", "U", "V", "W", "X", "Y", "Z">>
AsciiDigits == <<"0", "1", "2", "3", "4", "5", "6", "7", "8", "9">>

Range(seq) == {seq[i] : i \in 1..Len(seq)}

\* str.isdigit: the decimal digits and the digit characters that are not
\* decimal, such as superscript two
isdigit(c) == c \in Range(AsciiDigits) \cup {"SUP2"}
isalpha(c) == c \in Range(LowerCase) \cup Range(UpperCase)
isalnum(c) == isalpha(c) \/ isdigit(c)

\* str.lower, character by character
lower_char(c) ==
    IF c \in Range(UpperCase)
    THEN LowerCase[CHOOSE i \in 1..Len(UpperCase) : UpperCase[i] = c]
    ELSE c
lower(chars) == [i \in 1..Len(chars) |-> lower_char(chars[i])]

(***************************************************************************)
(* lexer.py                                                                *)
(*   spans is a ghost field: for each token, the offsets in source_code    *)
(*   where its lexeme starts and ends.                                     *)
(***************************************************************************)
NoChar == "None"

LexerError(text, char, line, column) ==
    [kind |-> "Exception",
     msg |-> [text |-> text, char |-> char, line |-> line, column |-> column]]

Lexer(source_code) ==
    [source_code |-> source_code, position |-> 0, line |-> 1, column |-> 1,
     tokens |-> <<>>, spans |-> <<>>, raised |-> NoException, pc |-> "tokenize"]

current_char(L) ==
    IF L.position >= Len(L.source_code) THEN NoChar
    ELSE L.source_code[L.position + 1]

peek_char(L) ==
    IF L.position + 1 >= Len(L.source_code) THEN NoChar
    ELSE L.source_code[L.position + 2]

advance(L) ==
    IF L.position < Len(L.source_code)
    THEN [L EXCEPT !.line = IF current_char(L) = "\n" THEN @ + 1 ELSE @,
                   !.column = IF current_char(L) = "\n" THEN 1 ELSE @ + 1,
                   !.position = @ + 1]
    ELSE L

RECURSIVE skip_whitespace(_)
skip_whitespace(L) ==
    IF current_char(L) # NoChar /\ current_char(L) \in {" ", "\t", "\r"}
    THEN skip_whitespace(advance(L))
    ELSE L

RECURSIVE skip_to_newline(_)
skip_to_newline(L) ==
    IF current_char(L) # NoChar /\ current_char(L) # "\n"
    THEN skip_to_newline(advance(L))
    ELSE L

\* a variant of skip_comment that keeps the comment as a COMMENT token
skip_comment_as_token(L) ==
    LET E == skip_to_newline(L)
    IN  [E EXCEPT !.tokens = Append(@, Token("COMMENT", <<"/", "/">>, L.line, L.column)),
                  !.spans = Append(@, [start |-> L.position, end |-> E.position])]

skip_comment(L) ==
    IF current_char(L) = "/" /\ peek_char(L) = "/" THEN skip_to_newline(L) ELSE L

\* self.tokens.append(token), for a lexeme that began at offset start
append_token(L, token, start) ==
    [L EXCEPT !.tokens = Append(@, token),
              !.spans = Append(@, [start |-> start, end |-> L.position])]

\* the loop of read_number; R carries the lexer, number_str and has_dot
RECURSIVE read_number_loop(_)
read_number_loop(R) ==
    LET c == current_char(R.lexer)
    IN  IF c # NoChar /\ (isdigit(c) \/ c = ".")
        THEN IF c = "." /\ R.has_dot
             THEN R
             ELSE read_number_loop([lexer |-> advance(R.lexer),
                                    number_str |-> Append(R.number_str, c),
                                    has_dot |-> R.has_dot \/ c = "."])
        ELSE R

read_number(L) ==
    LET R == read_number_loop([lexer |-> L, number_str |-> <<>>, has_dot |-> FALSE])
    IN  [lexer |-> R.lexer,
         token |-> Token("NUMBER", R.number_str, R.lexer.line, L.column)]

TypeError == [kind |-> "TypeError", msg |-> [text |-> "can only concatenate str (not NoneType) to str"]]

\* the loop of read_string; R carries the lexer, string_value and the
\* exception raised by `string_value += self.current_char()` when a backslash
\* is the last character of the source
RECURSIVE read_string_loop(_, _)
read_string_loop(R, quote_char) ==
    LET c == current_char(R.lexer)
    IN  IF c # NoChar /\ c # quote_char
        THEN IF c = "\\"
             THEN LET A == advance(R.lexer)
                      e == current_char(A)
                  IN  IF e = NoChar
                      THEN [R EXCEPT !.lexer = A, !.raised = TypeError]
                      ELSE read_string_loop(
                               [R EXCEPT !.lexer = advance(A),
                                         !.string_value =
                                             CASE e = "n" -> Append(@, "\n")
                                               [] e = "t" -> Append(@, "\t")
                                               [] OTHER -> Append(@, e)],
                               quote_char)
             ELSE read_string_loop([R EXCEPT !.lexer = advance(R.lexer),
                                             !.string_value = Append(@, c)],
                                   quote_char)
        ELSE R

TextUnterminated == "String sin cerrar en linea"
TextUnexpected == "Caracter inesperado"

read_string(L) ==
    LET quote_char == current_char(L)
        R == read_string_loop([lexer |-> advance(L), string_value |-> <<>>,
                               raised |-> NoException], quote_char)
    IN  IF Raised(R.raised)
        THEN [lexer |-> R.lexer, raised |-> R.raised, token |-> Token("None", <<>>, 0, 0)]
        ELSE IF current_char(R.lexer) = quote_char
        THEN LET E == advance(R.lexer)
             IN  [lexer |-> E, raised |-> NoException,
                  token |-> Token("STRING_LITERAL", R.string_value, E.line, L.column)]
        ELSE [lexer |-> R.lexer,
              raised |-> LexerError(TextUnterminated, NoChar, R.lexer.line, 0),
              token |-> Token("None", <<>>, 0, 0)]

\* the loop of read_identifier; R carries the lexer and identifier
RECURSIVE read_identifier_loop(_)
read_identifier_loop(R) ==
    LET c == current_char(R.lexer)
    IN  IF c # NoChar /\ (isalnum(c) \/ c = "_")
        THEN read_identifier_loop([lexer |-> advance(R.lexer),
                                   identifier |-> Append(R.identifier, c)])
        ELSE R

read_identifier(L) ==
    LET R == read_identifier_loop([lexer |-> L, identifier |-> <<>>])
    IN  [lexer |-> R.lexer,
         token |-> Token(KEYWORDS_get(lower(R.identifier)), R.identifier,
                         R.lexer.line, L.column)]

\* the operators of two characters and of one character, in the order of the
\* if/elif chain of tokenize
TwoCharOperators ==
    {[first |-> "=", second |-> "=", type |-> "EQUAL"],
     [first |-> "!", second |-> "=", type |-> "NOT_EQUAL"],
     [first |-> "<", second |-> "=", type |-> "LESS_EQUAL"],
     [first |-> ">", second |-> "=", type |-> "GREATER_EQUAL"],
     [first |-> "&", second |-> "&", type |-> "AND"],
     [first |-> "|", second |-> "|", type |-> "OR"]}

OneCharOperators ==
    {[char |-> "+", type |-> "PLUS"], [char |-> "-", type |-> "MINUS"],
     [char |-> "*", type |-> "MULTIPLY"], [char |-> "/", type |-> "DIVIDE"],
     [char |-> "%", type |-> "MODULO"], [char |-> "=", type |-> "ASSIGN"],
     [char |-> "<", type |-> "LESS_THAN"], [char |-> ">", type |-> "GREATER_THAN"],
     [char |-> "!", type |-> "NOT"], [char |-> ";", type |-> "SEMICOLON"],
     [char |-> ",", type |-> "COMMA"], [char |-> ".", type |-> "DOT"],
     [char |-> ":", type |-> "COLON"], [char |-> "(", type |-> "LPAREN"],
     [char |-> ")", type |-> "RPAREN"], [char |-> "{", type |-> "LBRACE"],
     [char |-> "}", type |-> "RBRACE"], [char |-> "[", type |-> "LBRACKET"],
     [char |-> "]", type |-> "RBRACKET"]}

\* the operator branch of tokenize
read_operator(L) ==
    LET char == current_char(L)
        next == peek_char(L)
    IN  IF \E o \in TwoCharOperators : o.first = char /\ o.second = next
        THEN LET o == CHOOSE o \in TwoCharOperators : o.first = char /\ o.second = next
                 E == advance(advance(L))
             IN  append_token(E, Token(o.type, <<char, next>>, E.line, L.column), L.position)
        ELSE IF \E o \in OneCharOperators : o.char = char
        THEN LET o == CHOOSE o \in OneCharOperators : o.char = char
                 E == advance(L)
             IN  append_token(E, Token(o.type, <<char>>, E.line, L.column), L.position)
        ELSE [L EXCEPT !.raised = LexerError(TextUnexpected, char, L.line, L.column),
                       !.pc = "raised"]

\* one iteration of the while loop of tokenize
tokenize_iteration(L0) ==
    LET L == skip_whitespace(L0)
        c == current_char(L)
    IN  CASE c = NoChar -> L
          [] c = "/" /\ peek_char(L) = "/" -> skip_comment(L)
          [] c = "\n" ->
                append_token(advance(L),
                             Token("NEWLINE", <<"\\", "n">>, L.line, L.column),
                             L.position)
          [] isdigit(c) ->
                LET r == read_number(L)
                IN  append_token(r.lexer, r.token, L.position)
          [] c \in {"\"", "'"} ->
                LET r == read_string(L)
                IN  IF Raised(r.raised)
                    THEN [r.lexer EXCEPT !.raised = r.raised, !.pc = "raised"]
                    ELSE append_token(r.lexer, r.token, L.position)
          [] isalpha(c) \/ c = "_" ->
                LET r == read_identifier(L)
                IN  append_token(r.lexer, r.token, L.position)
          [] OTHER -> read_operator(L)

\* the end of tokenize: the EOF token is appended and the list is returned
tokenize_return(L) ==
    [append_token(L, Token("EOF", <<"E", "O", "F">>, L.line, L.column), L.position)
        EXCEPT !.pc = "returned"]

\* tokenize as a whole: the loop runs until the source is consumed or an
\* exception is raised
RECURSIVE tokenize(_)
tokenize(L) ==
    IF Raised(L.raised) THEN L
    ELSE IF L.position < Len(L.source_code) THEN tokenize(tokenize_iteration(L))
    ELSE tokenize_return(L)

LexerIdle == [Lexer(<<>>) EXCEPT !.pc = "idle"]

(***************************************************************************)
(* ast_nodes.py: NumberLiteral.__init__ converts the lexeme                *)
(***************************************************************************)
ValueError == [kind |-> "ValueError", msg |-> [text |-> "invalid literal"]]

digit_value(c) == (CHOOSE i \in 1..Len(AsciiDigits) : AsciiDigits[i] = c) - 1

\* int(value) for a str of decimal digits
RECURSIVE int_of(_)
int_of(chars) ==
    IF chars = <<>> THEN 0
    ELSE 10 * int_of(SubSeq(chars, 1, Len(chars) - 1)) + digit_value(chars[Len(chars)])

RECURSIVE strip_leading_zeros(_)
strip_leading_zeros(chars) ==
    IF Len(chars) > 1 /\ chars[1] = "0" THEN strip_leading_zeros(Tail(chars)) ELSE chars

RECURSIVE strip_trailing_zeros(_)
strip_trailing_zeros(chars) ==
    IF Len(chars) > 1 /\ chars[Len(chars)] = "0"
    THEN strip_trailing_zeros(SubSeq(chars, 1, Len(chars) - 1))
    ELSE chars

\* float(value) for a str of decimal digits with one dot: the float is kept
\* by its shortest decimal digits, "1." and "1.0" and "01.00" are one float
float_of(chars) ==
    LET dot == CHOOSE i \in 1..Len(chars) : chars[i] = "."
        whole == strip_leading_zeros(SubSeq(chars, 1, dot - 1))
        fraction == SubSeq(chars, dot + 1, Len(chars))
    IN  PyFloat(whole \o <<".">>
                \o strip_trailing_zeros(IF fraction = <<>> THEN <<"0">> ELSE fraction))

\* NumberLiteral(value): float(value) if '.' in value else int(value); both
\* raise ValueError for a digit character that is not a decimal digit
NumberLiteral(value) ==
    IF \E i \in 1..Len(value) : value[i] \notin Range(AsciiDigits) \cup {"."}
    THEN [raised |-> ValueError, node |-> NoneNode]
    ELSE IF "." \in Range(value)
    THEN [raised |-> NoException, node |-> NumberLiteralNode(float_of(value))]
    ELSE [raised |-> NoException, node |-> NumberLiteralNode(PyInt(int_of(value)))]

(***************************************************************************)
(* parser.py                                                               *)
(*   P is the parser: [tokens, current, errors, raised, statements, pc];   *)
(*   raised holds an exception on its way up to the enclosing handler.     *)
(*   A parsing method returns [p, value]: the parser after it and the      *)
(*   node, token or list it returns.  Do(e, F) is `x = e; F(x)`;           *)
(*   Try(e, F) is the same when e may raise: the exception leaves the      *)
(*   calling method at once.                                               *)
(*   A BinaryExpression or UnaryExpression keeps the type of its operator  *)
(*   token.                                                                *)
(***************************************************************************)
ParseError(text, token) ==
    [kind |-> "ParseError",
     msg |-> [text |-> text, line |-> token.line, column |-> token.column,
              found |-> token.value]]

Parser(tokens) ==
    [tokens |-> SelectSeq(tokens, LAMBDA t : t.type # "NEWLINE"), current |-> 0,
     errors |-> <<>>, raised |-> NoException, statements |-> <<>>, pc |-> "parse"]

peek(P) == P.tokens[P.current + 1]

\* self.tokens[self.current - 1]: index -1 is the last token
previous(P) == IF P.current = 0 THEN P.tokens[Len(P.tokens)] ELSE P.tokens[P.current]

is_at_end(P) == peek(P).type = "EOF"

Parser_advance(P) == IF ~is_at_end(P) THEN [P EXCEPT !.current = @ + 1] ELSE P

check(P, token_type) == IF is_at_end(P) THEN FALSE ELSE peek(P).type = token_type

Result(P, value) == [p |-> P, value |-> value]

Do(e, F(_)) == CHOOSE r \in {F(x) : x \in {e}} : TRUE

Try(e, F(_)) ==
    CHOOSE r \in {IF Raised(x.p.raised) THEN Result(x.p, NoneNode) ELSE F(x) : x \in {e}} : TRUE

consume(P, token_type, message) ==
    IF check(P, token_type)
    THEN Result(Parser_advance(P), previous(Parser_advance(P)))
    ELSE Result([P EXCEPT !.raised = ParseError(message, peek(P))], NoneNode)

SynchronizeTypes == {"IF", "FOR", "WHILE", "VAR", "FUNCTION", "RETURN", "PRINT"}

RECURSIVE synchronize_loop(_)
\* a recovery that would not consume the offending token first
synchronize_in_place(P) == synchronize_loop(P)

synchronize_loop(P) ==
    IF ~is_at_end(P)
    THEN IF previous(P).type = "SEMICOLON" THEN P
         ELSE IF peek(P).type \in SynchronizeTypes THEN P
         ELSE synchronize_loop(Parser_advance(P))
    ELSE P

synchronize(P) == synchronize_loop(Parser_advance(P))

RECURSIVE declaration(_), var_declaration(_), function_declaration(_),
          parameters_loop(_), statement(_), if_statement(_),
          while_statement(_), for_statement(_), return_statement(_),
          print_statement(_), block_statement(_), block_loop(_),
          expression_statement(_), expression(_), assignment(_),
          binary(_, _), binary_loop(_, _), binary_loops(_, _, _), unary(_), Parser_call(_),
          call_loop(_), finish_call(_, _), arguments_loop(_), primary(_)

declaration(P) ==
    IF check(P, "VAR") \/ check(P, "CONST") THEN var_declaration(Parser_advance(P))
    ELSE IF check(P, "FUNCTION") THEN function_declaration(Parser_advance(P))
    ELSE statement(P)

var_declaration(P) ==
    Try(consume(P, "IDENTIFIER", "Se esperaba nombre de variable"), LAMBDA name :
    Try(IF check(name.p, "ASSIGN") THEN expression(Parser_advance(name.p))
        ELSE Result(name.p, NoneNode), LAMBDA initializer :
    Try(consume(initializer.p, "SEMICOLON",
                "Se esperaba ';' despues de declaracion de variable"), LAMBDA semi :
    Result(semi.p, VarDeclaration(previous(P).value, name.value.value,
                                  initializer.value)))))

\* while self.match(COMMA): parameters.append(self.consume(IDENTIFIER, ...));
\* R carries the parser and the parameters so far
parameters_loop(R) ==
    IF check(R.p, "COMMA")
    THEN Try(consume(Parser_advance(R.p), "IDENTIFIER", "Se esperaba nombre de parametro"),
             LAMBDA c : parameters_loop(Result(c.p, Append(R.value, c.value.value))))
    ELSE R

function_declaration(P) ==
    Try(consume(P, "IDENTIFIER", "Se esperaba nombre de funcion"), LAMBDA name :
    Try(consume(name.p, "LPAREN", "Se esperaba '(' despues del nombre de funcion"),
        LAMBDA lp :
    Try(IF check(lp.p, "RPAREN") THEN Result(lp.p, <<>>)
        ELSE Try(consume(lp.p, "IDENTIFIER", "Se esperaba nombre de parametro"),
                 LAMBDA first : parameters_loop(Result(first.p, <<first.value.value>>))),
        LAMBDA parameters :
    Try(consume(parameters.p, "RPAREN", "Se esperaba ')' despues de parametros"),
        LAMBDA rp :
    Try(consume(rp.p, "LBRACE", "Se esperaba '{' antes del cuerpo de funcion"),
        LAMBDA lb :
    Try(block_statement(lb.p), LAMBDA body :
    Result(body.p, FunctionDeclaration(name.value.value, parameters.value,
                                       body.value))))))))

statement(P) ==
    CASE check(P, "IF") -> if_statement(Parser_advance(P))
      [] check(P, "WHILE") -> while_statement(Parser_advance(P))
      [] check(P, "FOR") -> for_statement(Parser_advance(P))
      [] check(P, "RETURN") -> return_statement(Parser_advance(P))
      [] check(P, "PRINT") -> print_statement(Parser_advance(P))
      [] check(P, "LBRACE") -> block_statement(Parser_advance(P))
      [] OTHER -> expression_statement(P)

if_statement(P) ==
    Try(consume(P, "LPAREN", "Se esperaba '(' despues de 'if'"), LAMBDA lp :
    Try(expression(lp.p), LAMBDA condition :
    Try(consume(condition.p, "RPAREN", "Se esperaba ')' despues de condicion"),
        LAMBDA rp :
    Try(statement(rp.p), LAMBDA then_branch :
    Try(IF check(then_branch.p, "ELSE") THEN statement(Parser_advance(then_branch.p))
        ELSE Result(then_branch.p, NoneNode), LAMBDA else_branch :
    Result(else_branch.p, IfStatement(condition.value, then_branch.value,
                                      else_branch.value)))))))

while_statement(P) ==
    Try(consume(P, "LPAREN", "Se esperaba '(' despues de 'while'"), LAMBDA lp :
    Try(expression(lp.p), LAMBDA condition :
    Try(consume(condition.p, "RPAREN", "Se esperaba ')' despues de condicion"),
        LAMBDA rp :
    Try(statement(rp.p), LAMBDA body :
    Result(body.p, WhileStatement(condition.value, body.value))))))

for_statement(P) ==
    Try(consume(P, "LPAREN", "Se esperaba '(' despues de 'for'"), LAMBDA lp :
    Try(CASE check(lp.p, "SEMICOLON") -> Result(Parser_advance(lp.p), NoneNode)
          [] check(lp.p, "VAR") -> var_declaration(Parser_advance(lp.p))
          [] OTHER -> expression_statement(lp.p), LAMBDA init :
    Try(IF check(init.p, "SEMICOLON") THEN Result(init.p, NoneNode)
        ELSE expression(init.p), LAMBDA condition :
    Try(consume(condition.p, "SEMICOLON",
                "Se esperaba ';' despues de condicion del for"), LAMBDA semi :
    Try(IF check(semi.p, "RPAREN") THEN Result(semi.p, NoneNode)
        ELSE expression(semi.p), LAMBDA update :
    Try(consume(update.p, "RPAREN", "Se esperaba ')' despues de clausulas del for"),
        LAMBDA rp :
    Try(statement(rp.p), LAMBDA body :
    Result(body.p, ForStatement(init.value, condition.value, update.value,
                                body.value)))))))))

return_statement(P) ==
    Try(IF check(P, "SEMICOLON") THEN Result(P, NoneNode) ELSE expression(P),
        LAMBDA value :
    Try(consume(value.p, "SEMICOLON", "Se esperaba ';' despues de return"), LAMBDA semi :
    Result(semi.p, ReturnStatement(value.value))))

print_statement(P) ==
    Try(consume(P, "LPAREN", "Se esperaba '(' despues de 'print'"), LAMBDA lp :
    Try(expression(lp.p), LAMBDA expr :
    Try(consume(expr.p, "RPAREN", "Se esperaba ')' despues de expresion"), LAMBDA rp :
    Try(consume(rp.p, "SEMICOLON", "Se esperaba ';' despues de print"), LAMBDA semi :
    Result(semi.p, PrintStatement(expr.value))))))

\* while not self.check(RBRACE) and not self.is_at_end():
\*     statements.append(self.declaration());
\* R carries the parser and the statements so far
block_loop(R) ==
    IF check(R.p, "RBRACE") \/ is_at_end(R.p) THEN R
    ELSE Try(declaration(R.p),
             LAMBDA d : block_loop(Result(d.p, Append(R.value, d.value))))

block_statement(P) ==
    Try(block_loop(Result(P, <<>>)), LAMBDA statements :
    Try(consume(statements.p, "RBRACE", "Se esperaba '}' despues del bloque"),
        LAMBDA rb :
    Result(rb.p, BlockStatement(statements.value))))

expression_statement(P) ==
    Try(expression(P), LAMBDA expr :
    Try(consume(expr.p, "SEMICOLON", "Se esperaba ';' despues de expresion"),
        LAMBDA semi :
    Result(semi.p, ExpressionStatement(expr.value))))

expression(P) == assignment(P)

assignment(P) ==
    Try(binary(P, 1), LAMBDA expr :
    IF check(expr.p, "ASSIGN")
    THEN Try(assignment(Parser_advance(expr.p)), LAMBDA value :
             IF expr.value.node = "Identifier"
             THEN Result(value.p, AssignmentExpression(expr.value.name, value.value))
             ELSE Result([value.p EXCEPT !.raised =
                              [kind |-> "ParseError",
                               msg |-> [text |-> "Destino de asignacion invalido",
                                        line |-> 0, column |-> 0, found |-> <<>>]]],
                         NoneNode))
    ELSE expr)

\* the methods logical_or, logical_and, equality, comparison, term and
\* factor, from the loosest to the tightest, with the token types each matches
BinaryLevels ==
    <<[method |-> "logical_or", types |-> {"OR"}],
      [method |-> "logical_and", types |-> {"AND"}],
      [method |-> "equality", types |-> {"EQUAL", "NOT_EQUAL"}],
      [method |-> "comparison",
       types |-> {"GREATER_THAN", "GREATER_EQUAL", "LESS_THAN", "LESS_EQUAL"}],
      [method |-> "term", types |-> {"PLUS", "MINUS"}],
      [method |-> "factor", types |-> {"MULTIPLY", "DIVIDE", "MODULO"}]>>

\* the loop of the method at a level:
\* while self.match(types): expr = BinaryExpression(expr, operator, right);
\* R carries the parser and expr
binary_loop(R, level) ==
    IF \E token_type \in BinaryLevels[level].types : check(R.p, token_type)
    THEN Try(binary(Parser_advance(R.p), level + 1),
             LAMBDA right :
                 binary_loop(Result(right.p,
                                    BinaryExpression(R.value, peek(R.p).type, right.value)),
                             level))
    ELSE R

\* the loops of the methods from a level up to the level `last`, each on
\* the expression the method below it returned or raised
binary_loops(R, level, last) ==
    IF level < last \/ Raised(R.p.raised) THEN R
    ELSE Try(binary_loop(R, level), LAMBDA expr : binary_loops(expr, level - 1, last))

\* the method at a level (logical_or is level 1, unary follows factor): it
\* calls the method at the next level, and so on down to unary, and each
\* method then runs its loop on what the method below it returned
binary(P, level) ==
    IF level > Len(BinaryLevels) THEN unary(P)
    ELSE Try(unary(P), LAMBDA expr : binary_loops(expr, Len(BinaryLevels), level))

unary(P) ==
    IF check(P, "NOT") \/ check(P, "MINUS")
    THEN Try(unary(Parser_advance(P)),
             LAMBDA right : Result(right.p, UnaryExpression(peek(P).type, right.value)))
    ELSE Parser_call(P)

\* while True: if self.match(LPAREN): expr = self.finish_call(expr) else: break
call_loop(R) ==
    IF check(R.p, "LPAREN")
    THEN Try(finish_call(Parser_advance(R.p), R.value), LAMBDA c : call_loop(c))
    ELSE R

Parser_call(P) == Try(primary(P), LAMBDA expr : call_loop(expr))

\* while self.match(COMMA): arguments.append(self.expression());
\* R carries the parser and the arguments so far
arguments_loop(R) ==
    IF check(R.p, "COMMA")
    THEN Try(expression(Parser_advance(R.p)),
             LAMBDA e : arguments_loop(Result(e.p, Append(R.value, e.value))))
    ELSE R

finish_call(P, callee) ==
    Try(IF check(P, "RPAREN") THEN Result(P, <<>>)
        ELSE Try(expression(P),
                 LAMBDA first : arguments_loop(Result(first.p, <<first.value>>))),
        LAMBDA arguments :
    Try(consume(arguments.p, "RPAREN", "Se esperaba ')' despues de argumentos"),
        LAMBDA rp :
    Result(rp.p, CallExpression(callee, arguments.value))))

primary(P) ==
    CASE check(P, "TRUE") -> Result(Parser_advance(P), BooleanLiteral(TRUE))
      [] check(P, "FALSE") -> Result(Parser_advance(P), BooleanLiteral(FALSE))
      [] check(P, "NUMBER") ->
            Do(NumberLiteral(peek(P).value), LAMBDA n :
            Result([Parser_advance(P) EXCEPT !.raised = n.raised], n.node))
      [] check(P, "STRING_LITERAL") ->
            Result(Parser_advance(P), StringLiteral(peek(P).value))
      [] check(P, "IDENTIFIER") -> Result(Parser_advance(P), Identifier(peek(P).value))
      [] check(P, "LPAREN") ->
            Try(expression(Parser_advance(P)), LAMBDA expr :
            Try(consume(expr.p, "RPAREN", "Se esperaba ')' despues de expresion"),
                LAMBDA rp :
            Result(rp.p, expr.value)))
      [] OTHER ->
            Result([P EXCEPT !.raised =
                        [kind |-> "ParseError",
                         msg |-> [text |-> "Expresion inesperada", line |-> peek(P).line,
                                  column |-> 0, found |-> peek(P).value]]],
                   NoneNode)

\* a loop body that would record the ParseError without synchronizing
parse_iteration_unsynchronized(d) ==
    IF d.p.raised.kind = "ParseError"
    THEN [d.p EXCEPT !.errors = Append(@, d.p.raised.msg), !.raised = NoException]
    ELSE IF Raised(d.p.raised) THEN [d.p EXCEPT !.pc = "raised"]
    ELSE [d.p EXCEPT !.statements = Append(@, d.value)]

\* one iteration of the while loop of parse, after self.declaration()
\* returned or raised d: a ParseError is recorded and the parser
\* synchronizes; any other exception leaves parse
parse_iteration(d) ==
    IF d.p.raised.kind = "ParseError"
    THEN synchronize([d.p EXCEPT !.errors = Append(@, d.p.raised.msg),
                                 !.raised = NoException])
    ELSE IF Raised(d.p.raised) THEN [d.p EXCEPT !.pc = "raised"]
    ELSE [d.p EXCEPT !.statements = Append(@, d.value)]

\* return Program(statements)
parse_return(P) == [P EXCEPT !.pc = "returned"]

ParserIdle == [Parser(<<Token("EOF", <<"E", "O", "F">>, 1, 1)>>) EXCEPT !.pc = "idle"]

(***************************************************************************)
(* Python str operations used by the generator and the translators         *)
(***************************************************************************)
\* str(k) of an int
RECURSIVE str_nat(_)
str_nat(k) ==
    IF k < 10 THEN <<AsciiDigits[k + 1]>>
    ELSE str_nat(k \div 10) \o <<AsciiDigits[(k % 10) + 1]>>
str_int(k) == IF k < 0 THEN <<"-">> \o str_nat(-k) ELSE str_nat(k)

\* str(value), which is also what an f-string puts for {value}
str(value) ==
    CASE value.type = "NoneType" -> <<"N", "o", "n", "e">>
      [] value.type = "int" -> str_int(value.n)
      [] value.type = "float" -> value.s
      [] value.type = "bool" -> IF value.n = 1 THEN <<"T", "r", "u", "e">> ELSE <<"F", "a", "l", "s", "e">>
      [] value.type = "str" -> value.s

startswith(s, prefix) == Len(s) >= Len(prefix) /\ SubSeq(s, 1, Len(prefix)) = prefix
endswith(s, suffix) ==
    Len(s) >= Len(suffix) /\ SubSeq(s, Len(s) - Len(suffix) + 1, Len(s)) = suffix

Whitespace == {" ", "\t", "\n", "\r"}

RECURSIVE lstrip(_)
lstrip(s) == IF s # <<>> /\ Head(s) \in Whitespace THEN lstrip(Tail(s)) ELSE s
RECURSIVE rstrip(_)
rstrip(s) ==
    IF s # <<>> /\ s[Len(s)] \in Whitespace THEN rstrip(SubSeq(s, 1, Len(s) - 1)) ELSE s
strip(s) == rstrip(lstrip(s))

isidentifier(s) ==
    /\ s # <<>>
    /\ isalpha(s[1]) \/ s[1] = "_"
    /\ \A i \in 2..Len(s) : isalpha(s[i]) \/ s[i] \in Range(AsciiDigits) \/ s[i] = "_"

\* sep.join(items)
RECURSIVE join(_, _)
join(sep, items) ==
    IF items = <<>> THEN <<>>
    ELSE IF Len(items) = 1 THEN items[1]
    ELSE items[1] \o sep \o join(sep, Tail(items))

\* s * k
RECURSIVE repeat(_, _)
repeat(s, k) == IF k <= 0 THEN <<>> ELSE s \o repeat(s, k - 1)

\* the order of str: by code point, character by character
CodePoints == AsciiDigits \o UpperCase \o <<"_">> \o LowerCase
ord(c) == CHOOSE i \in 1..Len(CodePoints) : CodePoints[i] = c
RECURSIVE str_lt(_, _)
str_lt(a, b) ==
    IF b = <<>> THEN FALSE
    ELSE IF a = <<>> THEN TRUE
    ELSE IF a[1] = b[1] THEN str_lt(Tail(a), Tail(b))
    ELSE ord(a[1]) < ord(b[1])

\* sorted(strs) of a set of str
RECURSIVE sorted(_)
sorted(strs) ==
    IF strs = {} THEN <<>>
    ELSE Do(CHOOSE a \in strs : \A b \in strs \ {a} : str_lt(a, b),
            LAMBDA first : <<first>> \o sorted(strs \ {first}))

(***************************************************************************)
(* intermediate_code.py                                                    *)
(*   an operand is a Python value: None, a str (a name, a temporary, a     *)
(*   label, a quoted literal) or a number; an OpCode is kept by its name.  *)
(***************************************************************************)
Instruction(op, arg1, arg2, result) ==
    [op |-> op, arg1 |-> arg1, arg2 |-> arg2, result |-> result]

\* op_symbols of Instruction.__str__
op_symbols ==
    [op \in {"LT", "GT", "LE", "GE", "EQ", "NE"} |->
        CASE op = "LT" -> <<"<">>
          [] op = "GT" -> <<">">>
          [] op = "LE" -> <<"<", "=">>
          [] op = "GE" -> <<">", "=">>
          [] op = "EQ" -> <<"=", "=">>
          [] op = "NE" -> <<"!", "=">>]

\* the name of an OpCode as a str (op.value)
op_value(op) ==
    CASE op = "ADD" -> <<"A", "D", "D">> [] op = "SUB" -> <<"S", "U", "B">> [] op = "MUL" -> <<"M", "U", "L">>
      [] op = "DIV" -> <<"D", "I", "V">> [] op = "MOD" -> <<"M", "O", "D">> [] op = "AND" -> <<"A", "N", "D">>
      [] op = "OR" -> <<"O", "R">> [] op = "PARAM" -> <<"P", "A", "R", "A", "M">> [] op = "PRINT" -> <<"P", "R", "I", "N", "T">>
      [] op = "FUNC_BEGIN" -> <<"F", "U", "N", "C", "_", "B", "E", "G", "I", "N">> [] op = "FUNC_END" -> <<"F", "U", "N", "C", "_", "E", "N", "D">>

\* Instruction.__str__
Instruction_str(inst) ==
    CASE inst.op = "ASSIGN" -> str(inst.result) \o <<" ", "=", " ">> \o str(inst.arg1)
      [] inst.op \in {"ADD", "SUB", "MUL", "DIV", "MOD", "AND", "OR"} ->
            str(inst.result) \o <<" ", "=", " ">> \o str(inst.arg1) \o <<" ">> \o op_value(inst.op)
            \o <<" ">> \o str(inst.arg2)
      [] inst.op \in DOMAIN op_symbols ->
            str(inst.result) \o <<" ", "=", " ">> \o str(inst.arg1) \o <<" ">> \o op_symbols[inst.op]
            \o <<" ">> \o str(inst.arg2)
      [] inst.op = "NEG" -> str(inst.result) \o <<" ", "=", " ", "-">> \o str(inst.arg1)
      [] inst.op = "NOT" -> str(inst.result) \o <<" ", "=", " ", "!">> \o str(inst.arg1)
      [] inst.op = "GOTO" -> <<"G", "O", "T", "O", " ">> \o str(inst.arg1)
      [] inst.op = "IF_TRUE" -> <<"I", "F", " ">> \o str(inst.arg1) \o <<" ", "G", "O", "T", "O", " ">> \o str(inst.arg2)
      [] inst.op = "IF_FALSE" ->
            <<"I", "F", "_", "F", "A", "L", "S", "E", " ">> \o str(inst.arg1) \o <<" ", "G", "O", "T", "O", " ">> \o str(inst.arg2)
      [] inst.op = "LABEL" -> str(inst.arg1) \o <<":">>
      [] inst.op = "CALL" ->
            IF Truthy(inst.result)
            THEN str(inst.result) \o <<" ", "=", " ", "C", "A", "L", "L", " ">> \o str(inst.arg1) \o <<",", " ">> \o str(inst.arg2)
            ELSE <<"C", "A", "L", "L", " ">> \o str(inst.arg1) \o <<",", " ">> \o str(inst.arg2)
      [] inst.op = "RETURN" ->
            IF Truthy(inst.arg1) THEN <<"R", "E", "T", "U", "R", "N", " ">> \o str(inst.arg1) ELSE <<"R", "E", "T", "U", "R", "N">>
      [] inst.op \in {"PARAM", "PRINT", "FUNC_BEGIN", "FUNC_END"} ->
            op_value(inst.op) \o <<" ">> \o str(inst.arg1)

IntermediateCode == [instructions |-> <<>>, temp_counter |-> 0, label_counter |-> 0]

(***************************************************************************)
(* code_generator.py                                                       *)
(*   G is the generator: [code, current_function, break_labels,            *)
(*   continue_labels]; a visitor returns [g, value]: the generator after   *)
(*   it and the value it returns.                                          *)
(***************************************************************************)
CodeGenerator ==
    [code |-> IntermediateCode, current_function |-> PyNone,
     break_labels |-> <<>>, continue_labels |-> <<>>]

Gen(G, value) == [g |-> G, value |-> value]

emit(G, op, arg1, arg2, result) ==
    [G EXCEPT !.code.instructions = Append(@, Instruction(op, arg1, arg2, result))]

new_temp(G) ==
    Gen([G EXCEPT !.code.temp_counter = @ + 1],
        PyStr(<<"t">> \o str_int(G.code.temp_counter + 1)))

\* a new_label that would return the last name again
new_label_repeated(G) ==
    Gen(G, PyStr(<<"L">> \o str_int(G.code.label_counter + 1)))

new_label(G) ==
    Gen([G EXCEPT !.code.label_counter = @ + 1],
        PyStr(<<"L">> \o str_int(G.code.label_counter + 1)))

\* an emit_label that would emit the LABEL twice
emit_label_twice(G, label) ==
    emit(emit(G, "LABEL", label, PyNone, PyNone), "LABEL", label, PyNone, PyNone)

emit_label(G, label) == emit(G, "LABEL", label, PyNone, PyNone)
emit_goto(G, label) == emit(G, "GOTO", label, PyNone, PyNone)
emit_if_false(G, condition, label) == emit(G, "IF_FALSE", condition, label, PyNone)

\* op_map of visit_binary_expression
op_map ==
    [t \in {"PLUS", "MINUS", "MULTIPLY", "DIVIDE", "MODULO", "LESS_THAN",
            "GREATER_THAN", "LESS_EQUAL", "GREATER_EQUAL", "EQUAL", "NOT_EQUAL",
            "AND", "OR"} |->
        CASE t = "PLUS" -> "ADD"
          [] t = "MINUS" -> "SUB"
          [] t = "MULTIPLY" -> "MUL"
          [] t = "DIVIDE" -> "DIV"
          [] t = "MODULO" -> "MOD"
          [] t = "LESS_THAN" -> "LT"
          [] t = "GREATER_THAN" -> "GT"
          [] t = "LESS_EQUAL" -> "LE"
          [] t = "GREATER_EQUAL" -> "GE"
          [] t = "EQUAL" -> "EQ"
          [] t = "NOT_EQUAL" -> "NE"
          [] t = "AND" -> "AND"
          [] t = "OR" -> "OR"]

\* the loop labels pushed on entry of a loop and popped on its exit;
\* push_labels_break_twice would record the break label as continue label too
push_labels_break_twice(G, break_label, continue_label) ==
    [G EXCEPT !.break_labels = Append(@, break_label),
              !.continue_labels = Append(@, break_label)]

push_labels(G, break_label, continue_label) ==
    [G EXCEPT !.break_labels = Append(@, break_label),
              !.continue_labels = Append(@, continue_label)]
\* a loop exit that would leave the labels of the loop on the stacks
pop_labels_kept(G) == G

pop_labels(G) ==
    [G EXCEPT !.break_labels = SubSeq(@, 1, Len(@) - 1),
              !.continue_labels = SubSeq(@, 1, Len(@) - 1)]

\* a function end that would never add the RETURN
emit_missing_return_never(G) == G

\* the bare RETURN that closes a function without an explicit one
emit_missing_return(G) ==
    IF G.code.instructions = <<>>
       \/ G.code.instructions[Len(G.code.instructions)].op # "RETURN"
    THEN emit(G, "RETURN", PyNone, PyNone, PyNone)
    ELSE G

RECURSIVE accept(_, _), accept_optional(_, _), accept_all(_, _), emit_params(_, _),
          G_visit_var_declaration(_, _), G_visit_function_declaration(_, _),
          G_visit_block_statement(_, _), G_visit_if_statement(_, _),
          G_visit_while_statement(_, _), G_visit_for_statement(_, _),
          G_visit_return_statement(_, _), G_visit_print_statement(_, _),
          G_visit_expression_statement(_, _), G_visit_binary_expression(_, _),
          G_visit_unary_expression(_, _), G_visit_assignment_expression(_, _),
          G_visit_call_expression(_, _)

\* `if node.child: node.child.accept(self)`
accept_optional(G, node) == IF IsNone(node) THEN Gen(G, PyNone) ELSE accept(G, node)

\* `for stmt in statements: stmt.accept(self)`
accept_all(G, nodes) ==
    IF nodes = <<>> THEN G ELSE accept_all(accept(G, Head(nodes)).g, Tail(nodes))

G_visit_var_declaration(G, node) ==
    IF IsNone(node.initializer) THEN Gen(G, PyNone)
    ELSE Do(accept(G, node.initializer), LAMBDA value :
            Gen(emit(value.g, "ASSIGN", value.value, PyNone, PyStr(node.identifier)),
                PyNone))

G_visit_function_declaration(G, node) ==
    Do(accept(emit([G EXCEPT !.current_function = PyStr(node.name)],
                   "FUNC_BEGIN", PyStr(node.name), PyNone, PyNone),
              node.body), LAMBDA body :
       Gen([emit(emit_missing_return(body.g), "FUNC_END", PyStr(node.name), PyNone, PyNone)
                EXCEPT !.current_function = PyNone],
           PyNone))

G_visit_block_statement(G, node) == Gen(accept_all(G, node.statements), PyNone)

G_visit_if_statement(G, node) ==
    Do(accept(G, node.condition), LAMBDA condition :
    Do(new_label(condition.g), LAMBDA else_label :
    Do(new_label(else_label.g), LAMBDA end_label :
    Do(accept(emit_if_false(end_label.g, condition.value, else_label.value),
              node.then_branch), LAMBDA then_branch :
    Do(accept_optional(emit_label(emit_goto(then_branch.g, end_label.value),
                                  else_label.value),
                       node.else_branch), LAMBDA else_branch :
       Gen(emit_label(else_branch.g, end_label.value), PyNone))))))

\* visit_while_statement up to `node.body.accept(self)`: the generator at that
\* point, and <<start_label, end_label>>
while_body_entry(G, node) ==
    Do(new_label(G), LAMBDA start_label :
    Do(new_label(start_label.g), LAMBDA end_label :
    Do(accept(emit_label(push_labels(end_label.g, end_label.value, start_label.value),
                         start_label.value),
              node.condition), LAMBDA condition :
       Gen(emit_if_false(condition.g, condition.value, end_label.value),
           <<start_label.value, end_label.value>>))))

G_visit_while_statement(G, node) ==
    Do(while_body_entry(G, node), LAMBDA entry :
    Do(accept(entry.g, node.body), LAMBDA body :
       Gen(pop_labels(emit_label(emit_goto(body.g, entry.value[1]), entry.value[2])),
           PyNone)))

\* visit_for_statement up to `node.body.accept(self)`: the generator at that
\* point, and <<start_label, end_label, continue_label>>
for_body_entry(G, node) ==
    Do(accept_optional(G, node.init), LAMBDA init :
    Do(new_label(init.g), LAMBDA start_label :
    Do(new_label(start_label.g), LAMBDA end_label :
    Do(new_label(end_label.g), LAMBDA continue_label :
    Do(emit_label(push_labels(continue_label.g, end_label.value, continue_label.value),
                  start_label.value), LAMBDA started :
       Gen(IF IsNone(node.condition) THEN started
           ELSE Do(accept(started, node.condition), LAMBDA condition :
                   emit_if_false(condition.g, condition.value, end_label.value)),
           <<start_label.value, end_label.value, continue_label.value>>))))))

G_visit_for_statement(G, node) ==
    Do(for_body_entry(G, node), LAMBDA entry :
    Do(accept(entry.g, node.body), LAMBDA body :
    Do(accept_optional(emit_label(body.g, entry.value[3]), node.update),
       LAMBDA update :
       Gen(pop_labels(emit_label(emit_goto(update.g, entry.value[1]), entry.value[2])),
           PyNone))))

G_visit_return_statement(G, node) ==
    IF IsNone(node.value) THEN Gen(emit(G, "RETURN", PyNone, PyNone, PyNone), PyNone)
    ELSE Do(accept(G, node.value), LAMBDA value :
            Gen(emit(value.g, "RETURN", value.value, PyNone, PyNone), PyNone))

G_visit_print_statement(G, node) ==
    Do(accept(G, node.expression), LAMBDA value :
       Gen(emit(value.g, "PRINT", value.value, PyNone, PyNone), PyNone))

G_visit_expression_statement(G, node) ==
    Do(accept(G, node.expression), LAMBDA value : Gen(value.g, PyNone))

G_visit_binary_expression(G, node) ==
    Do(accept(G, node.left), LAMBDA left :
    Do(accept(left.g, node.right), LAMBDA right :
    Do(new_temp(right.g), LAMBDA result :
       Gen(IF node.operator \in DOMAIN op_map
           THEN emit(result.g, op_map[node.operator], left.value, right.value,
                     result.value)
           ELSE result.g,
           result.value))))

G_visit_unary_expression(G, node) ==
    Do(accept(G, node.operand), LAMBDA operand :
    Do(new_temp(operand.g), LAMBDA result :
       Gen(IF node.operator = "MINUS"
           THEN emit(result.g, "NEG", operand.value, PyNone, result.value)
           ELSE IF node.operator = "NOT"
           THEN emit(result.g, "NOT", operand.value, PyNone, result.value)
           ELSE result.g,
           result.value)))

G_visit_assignment_expression(G, node) ==
    Do(accept(G, node.value), LAMBDA value :
       Gen(emit(value.g, "ASSIGN", value.value, PyNone, PyStr(node.identifier)),
           PyStr(node.identifier)))

\* `for arg in node.arguments: self.code.emit(OpCode.PARAM, arg.accept(self))`
emit_params(G, arguments) ==
    IF arguments = <<>> THEN G
    ELSE Do(accept(G, Head(arguments)), LAMBDA arg_value :
            emit_params(emit(arg_value.g, "PARAM", arg_value.value, PyNone, PyNone),
                        Tail(arguments)))

G_visit_call_expression(G, node) ==
    Do(new_temp(emit_params(G, node.arguments)), LAMBDA result :
       Gen(emit(result.g, "CALL",
                IF HasName(node.callee) THEN PyStr(node.callee.name) ELSE PyStr(<<"u", "n", "k", "n", "o", "w", "n">>),
                PyInt(Len(node.arguments)), result.value),
           result.value))

G_visit_identifier(G, node) == Gen(G, PyStr(node.name))
G_visit_number_literal(G, node) == Gen(G, node.value)
G_visit_string_literal(G, node) == Gen(G, PyStr(<<"\"">> \o node.value.s \o <<"\"">>))
G_visit_boolean_literal(G, node) == Gen(G, PyStr(lower(str(node.value))))

\* node.accept(self)
accept(G, node) ==
    CASE node.node = "VarDeclaration" -> G_visit_var_declaration(G, node)
      [] node.node = "FunctionDeclaration" -> G_visit_function_declaration(G, node)
      [] node.node = "BlockStatement" -> G_visit_block_statement(G, node)
      [] node.node = "IfStatement" -> G_visit_if_statement(G, node)
      [] node.node = "WhileStatement" -> G_visit_while_statement(G, node)
      [] node.node = "ForStatement" -> G_visit_for_statement(G, node)
      [] node.node = "ReturnStatement" -> G_visit_return_statement(G, node)
      [] node.node = "PrintStatement" -> G_visit_print_statement(G, node)
      [] node.node = "ExpressionStatement" -> G_visit_expression_statement(G, node)
      [] node.node = "BinaryExpression" -> G_visit_binary_expression(G, node)
      [] node.node = "UnaryExpression" -> G_visit_unary_expression(G, node)
      [] node.node = "AssignmentExpression" -> G_visit_assignment_expression(G, node)
      [] node.node = "CallExpression" -> G_visit_call_expression(G, node)
      [] node.node = "Identifier" -> G_visit_identifier(G, node)
      [] node.node = "NumberLiteral" -> G_visit_number_literal(G, node)
      [] node.node = "StringLiteral" -> G_visit_string_literal(G, node)
      [] node.node = "BooleanLiteral" -> G_visit_boolean_literal(G, node)

(***************************************************************************)
(* python_translator.py: PythonTranslator                                  *)
(*   T is the translator: [indent_level, output_lines, in_function];       *)
(*   instruction indices are those of Python, counted from 0.              *)
(***************************************************************************)
PythonTranslator == [indent_level |-> 0, output_lines |-> <<>>, in_function |-> FALSE]

\* intermediate_code.instructions[index]
At(code, index) == code.instructions[index + 1]

_add_header(T) ==
    [T EXCEPT !.output_lines =
        @ \o <<<<"#", "!", "/", "u", "s", "r", "/", "b", "i", "n", "/", "e", "n", "v", " ", "p", "y", "t", "h", "o", "n", "3">>, <<"#", " ", "C", "oacute", "d", "i", "g", "o", " ", "g", "e", "n", "e", "r", "a", "d", "o", " ", "p", "o", "r", " ", "e", "l", " ", "c", "o", "m", "p", "i", "l", "a", "d", "o", "r">>, <<>>>>]

_indent(T) == repeat(<<" ", " ", " ", " ">>, T.indent_level)

_add_line(T, line) ==
    IF strip(line) # <<>>
    THEN [T EXCEPT !.output_lines = Append(@, _indent(T) \o line)]
    ELSE [T EXCEPT !.output_lines = Append(@, <<>>)]

_format_value(value) ==
    CASE value.type = "NoneType" -> <<"N", "o", "n", "e">>
      [] value.type = "bool" -> IF value.n = 1 THEN <<"T", "r", "u", "e">> ELSE <<"F", "a", "l", "s", "e">>
      [] value.type = "str" ->
            IF startswith(value.s, <<"\"">>) /\ endswith(value.s, <<"\"">>) THEN value.s
            ELSE IF startswith(value.s, <<"t">>) \/ isidentifier(value.s) THEN value.s
            ELSE IF value.s = <<"t", "r", "u", "e">> THEN <<"T", "r", "u", "e">>
            ELSE IF value.s = <<"f", "a", "l", "s", "e">> THEN <<"F", "a", "l", "s", "e">>
            ELSE <<"\"">> \o value.s \o <<"\"">>
      [] OTHER -> str(value)

\* the operators of the arithmetic, comparison and logical instructions
ArithmeticOps == {"ADD", "SUB", "MUL", "DIV", "MOD"}
ComparisonOps == {"LT", "GT", "LE", "GE", "EQ", "NE"}
LogicalOps == {"AND", "OR"}
operators ==
    [op \in ArithmeticOps \cup ComparisonOps \cup LogicalOps |->
        CASE op = "ADD" -> <<"+">>
          [] op = "SUB" -> <<"-">>
          [] op = "MUL" -> <<"*">>
          [] op = "DIV" -> <<"/">>
          [] op = "MOD" -> <<"%">>
          [] op = "LT" -> <<"<">>
          [] op = "GT" -> <<">">>
          [] op = "LE" -> <<"<", "=">>
          [] op = "GE" -> <<">", "=">>
          [] op = "EQ" -> <<"=", "=">>
          [] op = "NE" -> <<"!", "=">>
          [] op = "AND" -> <<"a", "n", "d">>
          [] op = "OR" -> <<"o", "r">>]

_find_label_index(code, label) ==
    IF \E i \in 0..(Len(code.instructions) - 1) :
            At(code, i).op = "LABEL" /\ At(code, i).arg1 = label
    THEN CHOOSE i \in 0..(Len(code.instructions) - 1) :
            /\ At(code, i).op = "LABEL" /\ At(code, i).arg1 = label
            /\ \A j \in 0..(i - 1) : ~(At(code, j).op = "LABEL" /\ At(code, j).arg1 = label)
    ELSE -1

_find_goto_before_label(code, label, start_index) ==
    Do(_find_label_index(code, label), LAMBDA label_index :
       IF \E i \in start_index..(label_index - 1) : At(code, i).op = "GOTO"
       THEN CHOOSE i \in start_index..(label_index - 1) :
                /\ At(code, i).op = "GOTO"
                /\ \A j \in start_index..(i - 1) : At(code, j).op # "GOTO"
       ELSE -1)

\* the PARAM values a CALL collects, scanning backwards from index j
RECURSIVE collect_params(_, _, _, _)
collect_params(code, j, params, args_count) ==
    IF j >= 0 /\ Len(params) < args_count
    THEN collect_params(code, j - 1,
                        IF At(code, j).op = "PARAM"
                        THEN <<_format_value(At(code, j).arg1)>> \o params
                        ELSE params,
                        args_count)
    ELSE params

_translate_function_begin(T, instruction) ==
    [_add_line(T, <<"d", "e", "f", " ">> \o str(instruction.arg1) \o <<"(", ")", ":">>)
        EXCEPT !.indent_level = @ + 1, !.in_function = TRUE]

RECURSIVE _translate_instruction(_, _, _, _), _translate_if_pattern(_, _, _, _),
          _process_block_until(_, _, _, _)

_translate_instruction(T, instruction, code, index) ==
    CASE instruction.op = "ASSIGN" ->
            _add_line(T, str(instruction.result) \o <<" ", "=", " ">>
                         \o _format_value(instruction.arg1))
      [] instruction.op \in ArithmeticOps \cup ComparisonOps \cup LogicalOps ->
            _add_line(T, str(instruction.result) \o <<" ", "=", " ">>
                         \o _format_value(instruction.arg1) \o <<" ">>
                         \o operators[instruction.op] \o <<" ">>
                         \o _format_value(instruction.arg2))
      [] instruction.op = "NOT" ->
            _add_line(T, str(instruction.result) \o <<" ", "=", " ", "n", "o", "t", " ">>
                         \o _format_value(instruction.arg1))
      [] instruction.op = "NEG" ->
            _add_line(T, str(instruction.result) \o <<" ", "=", " ", "-">>
                         \o _format_value(instruction.arg1))
      [] instruction.op \in {"LABEL", "GOTO", "PARAM"} -> T
      [] instruction.op \in {"IF_TRUE", "IF_FALSE"} ->
            _translate_if_pattern(T, instruction, code, index)
      [] instruction.op = "PRINT" ->
            _add_line(T, <<"p", "r", "i", "n", "t", "(">> \o _format_value(instruction.arg1) \o <<")">>)
      [] instruction.op = "FUNC_BEGIN" -> _translate_function_begin(T, instruction)
      [] instruction.op = "FUNC_END" ->
            [_add_line([T EXCEPT !.indent_level = @ - 1], <<>>)
                EXCEPT !.in_function = FALSE]
      [] instruction.op = "RETURN" ->
            IF Truthy(instruction.arg1)
            THEN _add_line(T, <<"r", "e", "t", "u", "r", "n", " ">> \o _format_value(instruction.arg1))
            ELSE _add_line(T, <<"r", "e", "t", "u", "r", "n">>)
      [] instruction.op = "CALL" ->
            Do(join(<<",", " ">>, collect_params(code, index - 1, <<>>, instruction.arg2.n)),
               LAMBDA args_str :
               IF Truthy(instruction.result)
               THEN _add_line(T, str(instruction.result) \o <<" ", "=", " ">>
                                 \o str(instruction.arg1) \o <<"(">> \o args_str \o <<")">>)
               ELSE _add_line(T, str(instruction.arg1) \o <<"(">> \o args_str \o <<")">>))
      [] OTHER -> T

_translate_if_pattern(T, instruction, code, index) ==
    IF instruction.op # "IF_FALSE" THEN T
    ELSE Do(_find_goto_before_label(code, instruction.arg2, index), LAMBDA goto_end_index :
         IF goto_end_index < 0 THEN T
         ELSE
         Do(_process_block_until(
                [_add_line(T, <<"i", "f", " ">> \o _format_value(instruction.arg1) \o <<":">>)
                    EXCEPT !.indent_level = @ + 1],
                code, index + 1, goto_end_index), LAMBDA then_block :
         Do(_find_label_index(code, instruction.arg2), LAMBDA else_index :
         Do(_find_label_index(code, At(code, goto_end_index).arg1), LAMBDA end_index :
            IF else_index < end_index - 1
            THEN Do(_process_block_until(
                        [_add_line([then_block EXCEPT !.indent_level = @ - 1], <<"e", "l", "s", "e", ":">>)
                            EXCEPT !.indent_level = @ + 1],
                        code, else_index + 1, end_index), LAMBDA else_block :
                    [else_block EXCEPT !.indent_level = @ - 1])
            ELSE [then_block EXCEPT !.indent_level = @ - 1]))))

_process_block_until(T, code, start, end) ==
    IF start < end
    THEN _process_block_until(
            IF At(code, start).op \notin {"LABEL", "GOTO"}
            THEN _translate_instruction(T, At(code, start), code, start)
            ELSE T,
            code, start + 1, end)
    ELSE T

\* translate, up to its loop: the output is reset and the header added
translate_begin(T) == _add_header([T EXCEPT !.output_lines = <<>>])

\* translate: what it returns after its loop
translate_return(T) == PyStr(join(<<"\n">>, T.output_lines))

(***************************************************************************)
(* python_translator.py: SimplifiedPythonTranslator                        *)
(*   S is the translator: [code_lines, temp_vars].                         *)
(***************************************************************************)
SimplifiedPythonTranslator == [code_lines |-> <<>>, temp_vars |-> {}]

\* the line of an instruction, None for an instruction it has no line for
_translate_simple(inst) ==
    CASE inst.op = "ASSIGN" -> PyStr(str(inst.result) \o <<" ", "=", " ">> \o str(inst.arg1))
      [] inst.op \in ArithmeticOps \cup ComparisonOps ->
            PyStr(str(inst.result) \o <<" ", "=", " ">> \o str(inst.arg1) \o <<" ">>
                  \o operators[inst.op] \o <<" ">> \o str(inst.arg2))
      [] inst.op = "PRINT" -> PyStr(<<"p", "r", "i", "n", "t", "(">> \o str(inst.arg1) \o <<")">>)
      [] inst.op = "LABEL" -> PyStr(<<"#", " ">> \o str(inst.arg1) \o <<":">>)
      [] inst.op = "GOTO" -> PyStr(<<"#", " ", "g", "o", "t", "o", " ">> \o str(inst.arg1))
      [] inst.op = "IF_FALSE" ->
            PyStr(<<"#", " ", "i", "f", " ", "n", "o", "t", " ">> \o str(inst.arg1) \o <<":", " ", "g", "o", "t", "o", " ">> \o str(inst.arg2))
      [] inst.op = "FUNC_BEGIN" -> PyStr(<<"\n", "#", " ", "F", "u", "n", "c", "i", "oacute", "n", " ">> \o str(inst.arg1))
      [] inst.op = "FUNC_END" -> PyStr(<<"#", " ", "F", "i", "n", " ", "d", "e", " ">> \o str(inst.arg1) \o <<"\n">>)
      [] inst.op = "RETURN" ->
            IF Truthy(inst.arg1) THEN PyStr(<<"#", " ", "r", "e", "t", "u", "r", "n", " ">> \o str(inst.arg1))
            ELSE PyStr(<<"#", " ", "r", "e", "t", "u", "r", "n">>)
      [] OTHER -> PyNone

\* the results that start with 't', added to temp_vars
temp_results(code) ==
    {code.instructions[i].result.s : i \in
        {j \in 1..Len(code.instructions) :
            /\ Truthy(code.instructions[j].result)
            /\ startswith(code.instructions[j].result.s, <<"t">>)}}

\* the loop over the instructions: a line is appended if it is not empty
RECURSIVE simple_lines(_, _)
simple_lines(lines, instructions) ==
    IF instructions = <<>> THEN lines
    ELSE Do(_translate_simple(Head(instructions)), LAMBDA line :
            simple_lines(IF Truthy(line) THEN Append(lines, line.s) ELSE lines,
                         Tail(instructions)))

\* the declarations of the temporaries, in sorted order
temp_lines(temp_vars) ==
    IF temp_vars = {} THEN <<>>
    ELSE <<<<"#", " ", "V", "a", "r", "i", "a", "b", "l", "e", "s", " ", "t", "e", "m", "p", "o", "r", "a", "l", "e", "s">>>>
         \o Do(sorted(temp_vars), LAMBDA temps :
               [i \in 1..Len(temps) |-> temps[i] \o <<" ", "=", " ", "N", "o", "n", "e">>])
         \o <<<<>>>>

S_translate(S, code) ==
    Do(S.temp_vars \cup temp_results(code), LAMBDA temp_vars :
       [code_lines |->
            simple_lines(<<<<"#", "!", "/", "u", "s", "r", "/", "b", "i", "n", "/", "e", "n", "v", " ", "p", "y", "t", "h", "o", "n", "3">>, <<"#", " ", "C", "oacute", "d", "i", "g", "o", " ", "g", "e", "n", "e", "r", "a", "d", "o", " ", "a", "u", "t", "o", "m", "aacute", "t", "i", "c", "a", "m", "e", "n", "t", "e">>,
                           <<>>>>
                         \o temp_lines(temp_vars)
                         \o <<<<"#", " ", "C", "oacute", "d", "i", "g", "o", " ", "p", "r", "i", "n", "c", "i", "p", "a", "l">>>>,
                         code.instructions),
        temp_vars |-> temp_vars])

S_translate_return(S) == PyStr(join(<<"\n">>, S.code_lines))

TranslatorIdle ==
    [pc |-> "idle", ast |-> <<>>, visited |-> 0, generator |-> CodeGenerator, i |-> 0,
     python |-> PythonTranslator, simplified |-> SimplifiedPythonTranslator,
     result |-> PyNone]

(***************************************************************************)
(* main.py: the driver's state when no driver is running                   *)
(***************************************************************************)
PipelineIdle ==
    [pc |-> "idle", code |-> <<>>, stages |-> <<>>, output_file |-> PyNone, run |-> 0,
     first |-> <<>>]

(***************************************************************************)
(* History variable                                                        *)
(***************************************************************************)
Call(op, node, name, value, raised) ==
    [op |-> op, node |-> node, name |-> name, value |-> value, raised |-> raised]
NoCall == Call("none", NoneNode, <<>>, PyNone, NoException)

(***************************************************************************)
(* Inputs                                                                  *)
(***************************************************************************)
X == <<"x">>
Y == <<"y">>
F == <<"f">>
Num1 == NumberLiteralNode(PyInt(1))
Num2 == NumberLiteralNode(PyInt(2))

TableNames == {X, Y}
TableValues == {PyNone, PyInt(1)}

(***************************************************************************)
(* SpecTable: a client calling the SymbolTable interface                   *)
(***************************************************************************)
BuilderIdle ==
    [errors |-> <<>>, current_function |-> PyNone, raised |-> NoException,
     pc |-> "idle", visited |-> 0]

InitTable ==
    /\ symbol_table = SymbolTable
    /\ builder = BuilderIdle
    /\ call = NoCall
    /\ lexer = LexerIdle
    /\ parser = ParserIdle
    /\ translator = TranslatorIdle
    /\ pipeline = PipelineIdle

EnterScope ==
    /\ symbol_table.scope_counter < MaxScopes
    /\ symbol_table' = enter_scope(symbol_table)
    /\ call' = Call("enter_scope", NoneNode, <<>>, PyNone, NoException)
    /\ UNCHANGED <<builder, lexer, parser, translator, pipeline>>

ExitScope ==
    LET x == exit_scope(symbol_table)
    IN  /\ symbol_table' = x.table
        /\ call' = Call("exit_scope", NoneNode, <<>>, PyNone, x.raised)
        /\ UNCHANGED <<builder, lexer, parser, translator, pipeline>>

DeclareVariable ==
    \E name \in TableNames, symbol_type \in {"VARIABLE", "CONSTANT"}, value \in TableValues :
        LET d == declare_variable(symbol_table, name,
                                  IF value # PyNone THEN infer_data_type(value) ELSE "unknown",
                                  symbol_type, 1, 1, value)
        IN  /\ Len(symbol_table.all_symbols) < MaxSymbols
            /\ symbol_table' = d.table
            /\ call' = Call("declare_variable", NoneNode, name, value, d.raised)
            /\ UNCHANGED <<builder, lexer, parser, translator, pipeline>>

DeclareFunction ==
    \E name \in TableNames, parameters \in {<<>>, <<X>>} :
        LET d == declare_function(symbol_table, name, "unknown", PyList(parameters), 1, 1)
        IN  /\ Len(symbol_table.all_symbols) < MaxSymbols
            /\ symbol_table' = d.table
            /\ call' = Call("declare_function", NoneNode, name, PyNone, d.raised)
            /\ UNCHANGED <<builder, lexer, parser, translator, pipeline>>

DeclareParameter ==
    \E name \in TableNames :
        LET d == declare_parameter(symbol_table, name, "unknown", 1, 1)
        IN  /\ Len(symbol_table.all_symbols) < MaxSymbols
            /\ symbol_table' = d.table
            /\ call' = Call("declare_parameter", NoneNode, name, PyNone, d.raised)
            /\ UNCHANGED <<builder, lexer, parser, translator, pipeline>>

UpdateSymbolValue ==
    \E name \in TableNames, value \in TableValues :
        LET u == update_symbol_value(symbol_table, name, value)
        IN  /\ symbol_table' = u.table
            /\ call' = Call("update_symbol_value", NoneNode, name, value, u.raised)
            /\ UNCHANGED <<builder, lexer, parser, translator, pipeline>>

NextTable ==
    \/ EnterScope
    \/ ExitScope
    \/ DeclareVariable
    \/ DeclareFunction
    \/ DeclareParameter

SpecTable == InitTable /\ [][NextTable]_vars

(***************************************************************************)
(* SpecBuilder: SymbolTableBuilder.build over a program, one top-level     *)
(* statement of visit_program's loop per step; a client may also call      *)
(* update_symbol_value on the builder's table.                             *)
(***************************************************************************)
BuilderExprs ==
    {Identifier(X), Identifier(Y), Num1}
    \cup {AssignmentExpression(n, v) : n \in {X, Y}, v \in {Num2, Identifier(Y)}}
    \cup {CallExpression(Identifier(F), <<Identifier(X)>>),
          CallExpression(Identifier(X), <<>>),
          BinaryExpression(Identifier(X), "PLUS", Identifier(Y)),
          UnaryExpression("MINUS", Identifier(Y))}

BuilderDecls ==
    {VarDeclaration(t, n, i) :
        t \in {str_var, str_const}, n \in {X, Y}, i \in {NoneNode, Num1, Identifier(Y)}}

\* statements used inside blocks, branches and bodies
InnerStmts ==
    {VarDeclaration(str_var, X, Num1),
     VarDeclaration(str_const, Y, NoneNode),
     ExpressionStatement(AssignmentExpression(X, Num2)),
     ExpressionStatement(Identifier(Y))}

BuilderStmts ==
    BuilderDecls
    \cup {ExpressionStatement(e) : e \in BuilderExprs}
    \cup {PrintStatement(Identifier(X)), ReturnStatement(NoneNode),
          ReturnStatement(Identifier(Y))}
    \cup {BlockStatement(<<s>>) : s \in InnerStmts}
    \cup {BlockStatement(<<VarDeclaration(str_var, Y, Num1),
                           VarDeclaration(str_var, Y, Num2),
                           ExpressionStatement(Identifier(X))>>)}
    \cup {IfStatement(Identifier(X), s, e) :
            s \in {ExpressionStatement(AssignmentExpression(X, Num2)),
                   BlockStatement(<<VarDeclaration(str_var, X, Num1)>>)},
            e \in {NoneNode, VarDeclaration(str_var, X, Num1)}}
    \cup {WhileStatement(Identifier(Y), ExpressionStatement(AssignmentExpression(X, Num2)))}
    \cup {ForStatement(VarDeclaration(str_var, Y, Num1), Identifier(Y),
                       AssignmentExpression(Y, Num2), PrintStatement(Identifier(X)))}
    \cup {FunctionDeclaration(F, ps, BlockStatement(<<s>>)) :
            ps \in {<<>>, <<X>>, <<X, X>>}, s \in InnerStmts}

\* the builder object with its table, as the visitors take it
TheBuilder ==
    [symbol_table |-> symbol_table, errors |-> builder.errors,
     current_function |-> builder.current_function, raised |-> builder.raised]

InitBuilder ==
    /\ symbol_table = SymbolTable
    /\ builder = [errors |-> <<>>, current_function |-> PyNone, raised |-> NoException,
                  pc |-> "building", visited |-> 0]
    /\ call = NoCall
    /\ lexer = LexerIdle
    /\ parser = ParserIdle
    /\ translator = TranslatorIdle
    /\ pipeline = PipelineIdle

\* one iteration of visit_program's loop inside build(): stmt.accept(self);
\* a SymbolTableError that reaches build() is recorded there and ends it
VisitStatement ==
    \E stmt \in BuilderStmts :
        LET B == visit(TheBuilder, stmt)
        IN  /\ builder.pc = "building"
            /\ builder.visited < MaxStmts
            /\ symbol_table' = B.symbol_table
            /\ builder' = [errors |-> IF Raised(B.raised) THEN Append(B.errors, B.raised.msg)
                                      ELSE B.errors,
                           current_function |-> B.current_function,
                           raised |-> NoException,
                           pc |-> IF Raised(B.raised) THEN "returned" ELSE "building",
                           visited |-> builder.visited + 1]
            /\ call' = Call("visit", stmt, <<>>, PyNone, NoException)
            /\ UNCHANGED <<lexer, parser, translator, pipeline>>

\* the loop is over: build() returns the table
BuildReturn ==
    /\ builder.pc = "building"
    /\ builder' = [builder EXCEPT !.pc = "returned"]
    /\ call' = Call("return", NoneNode, <<>>, PyNone, NoException)
    /\ UNCHANGED <<symbol_table, lexer, parser, translator, pipeline>>

NextBuilder ==
    \/ VisitStatement
    \/ BuildReturn
    \/ UpdateSymbolValue

SpecBuilder == InitBuilder /\ [][NextBuilder]_vars

(***************************************************************************)
(* SpecLexer: a fresh Lexer over a source text, one iteration of the loop  *)
(* of tokenize per step.                                                   *)
(***************************************************************************)
MaxSource == 4      \* characters of a source text given to the Lexer

LexerChars == {"a", "1", "\"", "\n", "/", " ", "=", "@", "\\"}

Sources == UNION {[1..n -> LexerChars] : n \in 0..MaxSource}

InitLexer ==
    /\ \E source_code \in Sources : lexer = Lexer(source_code)
    /\ symbol_table = SymbolTable
    /\ builder = BuilderIdle
    /\ call = NoCall
    /\ parser = ParserIdle
    /\ translator = TranslatorIdle
    /\ pipeline = PipelineIdle

TokenizeIteration ==
    /\ lexer.pc = "tokenize"
    /\ lexer.position < Len(lexer.source_code)
    /\ lexer' = tokenize_iteration(lexer)
    /\ call' = Call("tokenize", NoneNode, <<>>, PyNone, lexer'.raised)
    /\ UNCHANGED <<symbol_table, builder, parser, translator, pipeline>>

TokenizeReturn ==
    /\ lexer.pc = "tokenize"
    /\ lexer.position >= Len(lexer.source_code)
    /\ lexer' = tokenize_return(lexer)
    /\ call' = Call("return", NoneNode, <<>>, PyNone, NoException)
    /\ UNCHANGED <<symbol_table, builder, parser, translator, pipeline>>

NextLexer ==
    \/ TokenizeIteration
    \/ TokenizeReturn

SpecLexer == InitLexer /\ [][NextLexer]_vars

(***************************************************************************)
(* SpecParser: the Lexer's tokens for a source text given to a Parser, one *)
(* iteration of the loop of parse per step.                                *)
(***************************************************************************)
MaxWords == 3       \* lexemes of a source text given to Lexer and Parser

ParserWords ==
    {<<"v", "a", "r">>, <<"x">>, <<"=">>, <<"1">>, <<";">>, <<"SUP2">>,
     <<"(">>, <<")">>, <<"{">>, <<"}">>, <<"i", "f">>, <<"+">>}

\* the words of a source text, one space after each
RECURSIVE Join(_)
Join(words) == IF words = <<>> THEN <<>> ELSE Head(words) \o <<" ">> \o Join(Tail(words))

ParserSources == {Join(ws) : ws \in UNION {[1..n -> ParserWords] : n \in 0..MaxWords}}

InitParser ==
    /\ \E source_code \in ParserSources :
          /\ lexer = tokenize(Lexer(source_code))
          /\ parser = Parser(lexer.tokens)
    /\ symbol_table = SymbolTable
    /\ builder = BuilderIdle
    /\ call = NoCall
    /\ translator = TranslatorIdle
    /\ pipeline = PipelineIdle

ParseIteration ==
    /\ parser.pc = "parse"
    /\ ~is_at_end(parser)
    /\ \E d \in {declaration(parser)} :
          /\ parser' = parse_iteration(d)
          \* the history keeps the position where declaration() returned or raised
          /\ call' = Call("declaration", NoneNode, <<>>, PyInt(d.p.current), d.p.raised)
    /\ UNCHANGED <<symbol_table, builder, lexer, translator, pipeline>>

ParseReturn ==
    /\ parser.pc = "parse"
    /\ is_at_end(parser)
    /\ parser' = parse_return(parser)
    /\ call' = Call("return", NoneNode, <<>>, PyNone, NoException)
    /\ UNCHANGED <<symbol_table, builder, lexer, translator, pipeline>>

NextParser ==
    \/ ParseIteration
    \/ ParseReturn

SpecParser == InitParser /\ [][NextParser]_vars

\* parse is a sequential loop of a running program: an iteration that can
\* be taken is taken
SpecParserFair == SpecParser /\ WF_vars(NextParser)

(***************************************************************************)
(* SpecTranslator: CodeGenerator.generate over a program, one top-level    *)
(* statement of visit_program's loop per step, then one of the two         *)
(* translators over the generated code: PythonTranslator.translate, one    *)
(* iteration of its loop per step, or SimplifiedPythonTranslator.translate.*)
(***************************************************************************)
MaxProgram == 2     \* top-level statements of a program given to generate()

Num0 == NumberLiteralNode(PyInt(0))
Num3 == NumberLiteralNode(PyInt(3))
Print1 == PrintStatement(Num1)
Print2 == PrintStatement(Num2)
Print3 == PrintStatement(Num3)

IfElseStmts ==
    {IfStatement(Identifier(X), t, e) :
        t \in {Print1, BlockStatement(<<Print1>>)},
        e \in {NoneNode, BlockStatement(<<Print2>>)}}
    \cup {IfStatement(Identifier(X),
                      BlockStatement(<<IfStatement(Identifier(Y), Print1, e)>>),
                      BlockStatement(<<Print3>>)) : e \in {NoneNode, Print2}}
    \cup {IfStatement(Identifier(X), Print1, IfStatement(Identifier(Y), Print2, Print3)),
          IfStatement(Identifier(X), BlockStatement(<<>>), Print2)}

StraightStmts ==
    {Print1, Print3,
     VarDeclaration(str_var, X, Num1),
     VarDeclaration(str_var, Y, NoneNode),
     VarDeclaration(str_const, Y, BinaryExpression(Identifier(X), "MULTIPLY", Num2)),
     PrintStatement(BinaryExpression(Identifier(X), "PLUS", Identifier(Y))),
     PrintStatement(BinaryExpression(Identifier(X), "GREATER_THAN", Num1)),
     PrintStatement(BinaryExpression(Identifier(X), "AND", Identifier(Y))),
     PrintStatement(UnaryExpression("MINUS", Identifier(X))),
     PrintStatement(UnaryExpression("NOT", Identifier(X))),
     PrintStatement(StringLiteral(<<"a">>)),
     PrintStatement(BooleanLiteral(TRUE)),
     ExpressionStatement(AssignmentExpression(Y, CallExpression(Identifier(F),
                                                               <<Identifier(X), Num2>>))),
     ExpressionStatement(CallExpression(Identifier(F), <<>>))}

LoopAndFunctionStmts ==
    {WhileStatement(Identifier(X), BlockStatement(<<Print1>>)),
     ForStatement(VarDeclaration(str_var, X, Num0),
                  BinaryExpression(Identifier(X), "LESS_THAN", Num2),
                  AssignmentExpression(X, BinaryExpression(Identifier(X), "PLUS", Num1)),
                  Print1),
     ForStatement(NoneNode, NoneNode, NoneNode, Print1),
     FunctionDeclaration(F, <<>>, BlockStatement(<<Print1>>)),
     FunctionDeclaration(F, <<X>>, BlockStatement(<<ReturnStatement(Identifier(X))>>)),
     FunctionDeclaration(F, <<>>, BlockStatement(<<ReturnStatement(Num0)>>)),
     ReturnStatement(NoneNode)}

Less2 == BinaryExpression(Identifier(X), "LESS_THAN", Num2)

\* statements inside loops and loops inside statements
NestedStmts ==
    {IfStatement(Less2, Print1, NoneNode),
     IfStatement(Identifier(X), WhileStatement(Identifier(Y), Print1), Print2),
     WhileStatement(Less2, BlockStatement(<<WhileStatement(Identifier(Y), Print1)>>)),
     WhileStatement(Identifier(X), IfStatement(Identifier(Y), Print1, Print2)),
     ForStatement(NoneNode, Identifier(X), NoneNode,
                  BlockStatement(<<ForStatement(VarDeclaration(str_var, Y, Num0), Less2,
                                                AssignmentExpression(Y, Num1), Print1)>>)),
     ForStatement(NoneNode, NoneNode, AssignmentExpression(X, Num1),
                  WhileStatement(Identifier(X), Print1))}

\* functions with and without a closing return, calls with compound and
\* nested arguments, a chained call
FunctionAndCallStmts ==
    {FunctionDeclaration(F, <<>>, BlockStatement(<<>>)),
     FunctionDeclaration(F, <<>>, BlockStatement(<<ReturnStatement(NoneNode)>>)),
     FunctionDeclaration(F, <<>>,
         BlockStatement(<<FunctionDeclaration(Y, <<>>,
                              BlockStatement(<<ReturnStatement(Num1)>>))>>)),
     FunctionDeclaration(F, <<>>,
         BlockStatement(<<IfStatement(Identifier(X), ReturnStatement(Num1), NoneNode)>>)),
     ExpressionStatement(CallExpression(Identifier(F),
         <<Identifier(X), BinaryExpression(Num1, "PLUS", Num2)>>)),
     ExpressionStatement(CallExpression(Identifier(F),
         <<Num1, CallExpression(Identifier(Y), <<Num2>>)>>)),
     ExpressionStatement(CallExpression(Identifier(F),
         <<CallExpression(Identifier(Y), <<Num1>>), Num2>>)),
     ExpressionStatement(CallExpression(CallExpression(Identifier(F), <<>>), <<>>)),
     PrintStatement(BooleanLiteral(FALSE)),
     IfStatement(Identifier(X),
                 ExpressionStatement(CallExpression(Identifier(F), <<Num1>>)), Print2)}

TranslatorStmts ==
    IfElseStmts \cup StraightStmts \cup LoopAndFunctionStmts \cup NestedStmts
    \cup FunctionAndCallStmts

\* the statements a program may repeat
SmallStmts == {Print3, VarDeclaration(str_var, X, Num1)}

Programs ==
    {ast \in UNION {[1..n -> TranslatorStmts] : n \in 0..MaxProgram} :
        Cardinality({i \in DOMAIN ast : ast[i] \notin SmallStmts}) <= 1}

InitTranslator ==
    /\ \E ast \in Programs :
          translator = [TranslatorIdle EXCEPT !.pc = "generate", !.ast = ast]
    /\ symbol_table = SymbolTable
    /\ builder = BuilderIdle
    /\ call = NoCall
    /\ lexer = LexerIdle
    /\ parser = ParserIdle
    /\ pipeline = PipelineIdle

\* one iteration of visit_program's loop inside generate(): stmt.accept(self)
GenerateStatement ==
    /\ translator.pc = "generate"
    /\ translator.visited < Len(translator.ast)
    /\ translator' =
          [translator EXCEPT
              !.generator = accept(@, translator.ast[translator.visited + 1]).g,
              !.visited = @ + 1]
    /\ call' = Call("accept", translator.ast[translator.visited + 1], <<>>, PyNone,
                    NoException)
    /\ UNCHANGED <<symbol_table, builder, lexer, parser, pipeline>>

\* the loop is over: generate() returns the code
GenerateReturn ==
    /\ translator.pc = "generate"
    /\ translator.visited = Len(translator.ast)
    /\ translator' = [translator EXCEPT !.pc = "generated"]
    /\ call' = Call("generate", NoneNode, <<>>, PyNone, NoException)
    /\ UNCHANGED <<symbol_table, builder, lexer, parser, pipeline>>

\* PythonTranslator().translate(code), up to its loop
TranslateBegin ==
    /\ translator.pc = "generated"
    /\ translator' = [translator EXCEPT !.pc = "translate", !.i = 0,
                                        !.python = translate_begin(@)]
    /\ call' = Call("translate", NoneNode, <<>>, PyNone, NoException)
    /\ UNCHANGED <<symbol_table, builder, lexer, parser, pipeline>>

\* one iteration of the loop of translate
TranslateInstruction ==
    /\ translator.pc = "translate"
    /\ translator.i < Len(translator.generator.code.instructions)
    /\ translator' =
          [translator EXCEPT
              !.python = _translate_instruction(@, At(translator.generator.code,
                                                      translator.i),
                                                translator.generator.code, translator.i),
              !.i = @ + 1]
    /\ call' = Call("_translate_instruction", NoneNode, <<>>, PyInt(translator.i),
                    NoException)
    /\ UNCHANGED <<symbol_table, builder, lexer, parser, pipeline>>

\* the loop is over: translate returns the joined lines
TranslateReturn ==
    /\ translator.pc = "translate"
    /\ translator.i = Len(translator.generator.code.instructions)
    /\ translator' = [translator EXCEPT !.pc = "returned",
                                        !.result = translate_return(translator.python)]
    /\ call' = Call("return", NoneNode, <<>>, PyNone, NoException)
    /\ UNCHANGED <<symbol_table, builder, lexer, parser, pipeline>>

\* SimplifiedPythonTranslator().translate(code), as the pipeline calls it
SimplifiedTranslate ==
    /\ translator.pc = "generated"
    /\ \E S \in {S_translate(translator.simplified, translator.generator.code)} :
          translator' = [translator EXCEPT !.pc = "simplified", !.simplified = S,
                                           !.result = S_translate_return(S)]
    /\ call' = Call("translate", NoneNode, <<>>, PyNone, NoException)
    /\ UNCHANGED <<symbol_table, builder, lexer, parser, pipeline>>

NextTranslator ==
    \/ GenerateStatement
    \/ GenerateReturn
    \/ TranslateBegin
    \/ TranslateInstruction
    \/ TranslateReturn
    \/ SimplifiedTranslate

SpecTranslator == InitTranslator /\ [][NextTranslator]_vars

(***************************************************************************)
(* SpecPipeline: the driver of main.py (test_from_file; the stages of      *)
(* test_complete_compilation follow the same order) over a source text,    *)
(* one stage per step, and then a second time over the same text.  Every   *)
(* stage gets a new object; the objects of the previous run are still in   *)
(* memory when the second run starts.                                      *)
(***************************************************************************)
MaxUnits == 2       \* statements of a source text given to the driver

Units ==
    {<<"v", "a", "r", " ", "x", " ", "=", " ", "1", ";">>, <<"v", "a", "r", " ", "t", "1", " ", "=", " ", "5", ";">>, <<"v", "a", "r", " ", "y", " ", "=", " ", "t", "1", " ", "+", " ", "1", ";">>, <<"p", "r", "i", "n", "t", "(", "t", "1", ")", ";">>,
     <<"x", " ", "=", " ", "x", " ", "+", " ", "2", ";">>, <<"i", "f", " ", "(", "x", " ", "<", " ", "2", ")", " ", "p", "r", "i", "n", "t", "(", "1", ")", ";", " ", "e", "l", "s", "e", " ", "p", "r", "i", "n", "t", "(", "2", ")", ";">>, <<"w", "h", "i", "l", "e", " ", "(", "x", ")", " ", "x", " ", "=", " ", "0", ";">>,
     <<"v", "a", "r", " ", "s", " ", "=", " ", "\"", "a">>, <<"v", "a", "r", " ", "=", " ", "1", ";">>, <<"1", " ", "=", " ", "2", ";">>, <<"SUP2", ";">>, <<"p", "r", "i", "n", "t", "(", "z", ")", ";">>,
     <<"c", "o", "n", "s", "t", " ", "x", " ", "=", " ", "1", ";">>, <<"C", "O", "N", "S", "T", " ", "x", " ", "=", " ", "1", ";">>}

PipelineSources == {Join(us) : us \in UNION {[1..n -> Units] : n \in 1..MaxUnits}}

\* Parser.parse as a whole: the loop runs until EOF or until an exception
\* other than ParseError leaves it
RECURSIVE parse(_)
parse(P) ==
    IF P.pc = "raised" THEN P
    ELSE IF is_at_end(P) THEN parse_return(P)
    ELSE parse(parse_iteration(declaration(P)))

\* SymbolTableBuilder.build as a whole
build(B, ast) ==
    Do(visit_all(B, ast), LAMBDA R :
       IF Raised(R.raised)
       THEN [R EXCEPT !.errors = Append(@, R.raised.msg), !.raised = NoException]
       ELSE R)

\* CodeGenerator.generate as a whole
generate(G, ast) == accept_all(G, ast)

\* a driver that would keep the generator of the last run
main_generator_kept(last) == last

\* `generator = CodeGenerator()`: a new generator, whatever the last one was
main_generator(last) == CodeGenerator

InitPipeline ==
    /\ \E code \in PipelineSources :
          pipeline = [PipelineIdle EXCEPT !.pc = "lexer", !.code = code, !.run = 1]
    /\ symbol_table = SymbolTable
    /\ builder = BuilderIdle
    /\ call = NoCall
    /\ lexer = LexerIdle
    /\ parser = ParserIdle
    /\ translator = TranslatorIdle

\* lexer = Lexer(code); tokens = lexer.tokenize(): an exception reaches the
\* handler at the end of the driver
RunLexer ==
    /\ pipeline.pc = "lexer"
    /\ lexer' = tokenize(Lexer(pipeline.code))
    /\ pipeline' = [pipeline EXCEPT !.stages = Append(@, "lexer"),
                                    !.pc = IF Raised(lexer'.raised) THEN "except"
                                           ELSE "parser"]
    /\ call' = Call("tokenize", NoneNode, <<>>, PyNone, lexer'.raised)
    /\ UNCHANGED <<symbol_table, builder, parser, translator>>

\* a driver that would go on whatever the parser reported
after_parse_unchecked(P) == "builder"

\* where the driver goes after parser.parse(): to its exception handler, to
\* its end when `if parser.errors:` holds, to the builder otherwise
after_parse(P) ==
    IF Raised(P.raised) THEN "except"
    ELSE IF P.errors # <<>> THEN "done"
    ELSE "builder"

\* parser = Parser(tokens); ast = parser.parse(); if parser.errors: ...
RunParser ==
    /\ pipeline.pc = "parser"
    /\ parser' = parse(Parser(lexer.tokens))
    /\ pipeline' = [pipeline EXCEPT !.stages = Append(@, "parser"),
                                    !.pc = after_parse(parser')]
    /\ call' = Call("parse", NoneNode, <<>>, PyNone, parser'.raised)
    /\ UNCHANGED <<symbol_table, builder, lexer, translator>>

\* builder = SymbolTableBuilder(); symbol_table = builder.build(ast): the
\* builder's errors are printed as warnings
RunBuilder ==
    /\ pipeline.pc = "builder"
    /\ \E B \in {build(SymbolTableBuilder, parser.statements)} :
          /\ symbol_table' = B.symbol_table
          /\ builder' = [errors |-> B.errors, current_function |-> B.current_function,
                         raised |-> B.raised, pc |-> "returned",
                         visited |-> Len(parser.statements)]
    /\ pipeline' = [pipeline EXCEPT !.stages = Append(@, "builder"), !.pc = "generator"]
    /\ call' = Call("build", NoneNode, <<>>, PyNone, NoException)
    /\ UNCHANGED <<lexer, parser, translator>>

\* generator = CodeGenerator(); intermediate_code = generator.generate(ast)
RunGenerator ==
    /\ pipeline.pc = "generator"
    /\ translator' =
          [TranslatorIdle EXCEPT
              !.pc = "generated", !.ast = parser.statements,
              !.visited = Len(parser.statements),
              !.generator = generate(main_generator(translator.generator),
                                     parser.statements)]
    /\ pipeline' = [pipeline EXCEPT !.stages = Append(@, "generator"),
                                    !.pc = "translator"]
    /\ call' = Call("generate", NoneNode, <<>>, PyNone, NoException)
    /\ UNCHANGED <<symbol_table, builder, lexer, parser>>

\* translator = SimplifiedPythonTranslator();
\* python_code = translator.translate(intermediate_code)
RunTranslator ==
    /\ pipeline.pc = "translator"
    /\ \E S \in {S_translate(SimplifiedPythonTranslator, translator.generator.code)} :
          translator' = [translator EXCEPT !.pc = "simplified", !.simplified = S,
                                           !.result = S_translate_return(S)]
    /\ pipeline' = [pipeline EXCEPT !.stages = Append(@, "translator"), !.pc = "write"]
    /\ call' = Call("translate", NoneNode, <<>>, PyNone, NoException)
    /\ UNCHANGED <<symbol_table, builder, lexer, parser>>

\* with open(output_filename, 'w') as f: f.write(python_code)
WriteOutput ==
    /\ pipeline.pc = "write"
    /\ pipeline' = [pipeline EXCEPT !.stages = Append(@, "write"),
                                    !.output_file = translator.result, !.pc = "done"]
    /\ call' = Call("write", NoneNode, <<>>, translator.result, NoException)
    /\ UNCHANGED <<symbol_table, builder, lexer, parser, translator>>

\* except Exception as e: print(...)
HandleException ==
    /\ pipeline.pc = "except"
    /\ pipeline' = [pipeline EXCEPT !.pc = "done"]
    /\ call' = Call("except", NoneNode, <<>>, PyNone, NoException)
    /\ UNCHANGED <<symbol_table, builder, lexer, parser, translator>>

\* the driver is called again on the same text; what the first run produced
\* is kept aside for comparison
RunAgain ==
    /\ pipeline.pc = "done"
    /\ pipeline.run = 1
    /\ pipeline' =
          [pipeline EXCEPT
              !.pc = "lexer", !.run = 2, !.stages = <<>>,
              !.first = <<[stages |-> pipeline.stages, tokens |-> lexer.tokens,
                           code |-> translator.generator.code,
                           result |-> translator.result]>>]
    /\ call' = Call("main", NoneNode, <<>>, PyNone, NoException)
    /\ UNCHANGED <<symbol_table, builder, lexer, parser, translator>>

NextPipeline ==
    \/ RunLexer
    \/ RunParser
    \/ RunBuilder
    \/ RunGenerator
    \/ RunTranslator
    \/ WriteOutput
    \/ HandleException
    \/ RunAgain

SpecPipeline == InitPipeline /\ [][NextPipeline]_vars

(***************************************************************************)
(* Claims about the symbol table and its builder                           *)
(***************************************************************************)
TextDuplicate == "Simbolo ya esta declarado en este ambito"
TextConstant == "No se puede modificar la constante"

DeclaredHere(T, name) == name \in DOMAIN T.scopes[T.current_scope].symbols

\* the index of the first parameter that repeats an earlier one, 0 if none does
FirstDuplicate(params) ==
    LET dups == {k \in 1..Len(params) : \E j \in 1..(k - 1) : params[j] = params[k]}
    IN  IF dups = {} THEN 0 ELSE CHOOSE k \in dups : \A m \in dups : k <= m

LastError == builder.errors[Len(builder.errors)]

\* C3: declaring a variable, constant or function whose name the current
\* scope already holds, or a parameter that repeats an earlier parameter of
\* the same function, adds exactly one error (the duplicate-declaration
\* message for that name) and installs nothing: for a variable, constant or
\* function the whole table, with the first symbol and all_symbols, is
\* unchanged; for a parameter the function's scope still maps the name to the
\* first parameter's symbol and all_symbols gained only the function and the
\* parameters before the repeated one.
C3_DuplicateDeclarationRejected ==
    [][call'.op = "visit" =>
        LET node == call'.node
            T == symbol_table
            k == FirstDuplicate(node.params)
            new == symbol_table'.current_scope
        IN  /\ (node.node = "VarDeclaration" /\ DeclaredHere(T, node.identifier)) =>
                    /\ builder'.errors = Append(builder.errors,
                                                Msg(TextDuplicate, node.identifier))
                    /\ symbol_table' = T
            /\ (node.node = "FunctionDeclaration" /\ DeclaredHere(T, node.name)) =>
                    /\ builder'.errors = Append(builder.errors, Msg(TextDuplicate, node.name))
                    /\ symbol_table' = T
            /\ (node.node = "FunctionDeclaration" /\ ~DeclaredHere(T, node.name) /\ k # 0) =>
                    /\ builder'.errors = Append(builder.errors,
                                                Msg(TextDuplicate, node.params[k]))
                    /\ Len(symbol_table'.all_symbols) = Len(T.all_symbols) + k
                    /\ SubSeq(symbol_table'.all_symbols, 1, Len(T.all_symbols))
                          = T.all_symbols
                    /\ DOMAIN symbol_table'.scopes[new].symbols
                          = {node.params[i] : i \in 1..(k - 1)}
                    /\ \A i \in 1..(k - 1) :
                          LET ref == symbol_table'.scopes[new].symbols[node.params[i]]
                          IN  /\ ref = Len(T.all_symbols) + 1 + i
                              /\ symbol_table'.all_symbols[ref] =
                                    Symbol(node.params[i], "PARAMETER", "unknown",
                                           symbol_table'.scopes[new].level, 1, 1,
                                           PyNone, TRUE, PyNone)
    ]_vars

\* witness of C3: a const declaration of a name the scope already held was just rejected
C3_Witness ==
    /\ call.op = "visit"
    /\ call.node.node = "VarDeclaration"
    /\ call.node.var_type = str_const
    /\ builder.errors # <<>>
    /\ LastError = Msg(TextDuplicate, call.node.identifier)
    /\ \E i \in 1..Len(symbol_table.all_symbols) :
          /\ symbol_table.all_symbols[i].name = call.node.identifier
          /\ symbol_table.all_symbols[i].symbol_type = "VARIABLE"

ConstantErrors(errs) == Cardinality({i \in 1..Len(errs) : errs[i].text = TextConstant})

\* C4: a CONSTANT symbol is never changed after its declaration; an
\* assignment statement whose target resolves to a constant adds exactly one
\* cannot-modify-constant error, and update_symbol_value on a name that
\* resolves to a constant raises exactly that error and changes nothing.
C4_ConstantNeverMutated ==
    [][ /\ \A i \in 1..Len(symbol_table.all_symbols) :
              symbol_table.all_symbols[i].symbol_type = "CONSTANT" =>
                  symbol_table'.all_symbols[i] = symbol_table.all_symbols[i]
        /\ ( /\ call'.op = "visit"
             /\ call'.node.node = "ExpressionStatement"
             /\ call'.node.expression.node = "AssignmentExpression"
             /\ call'.node.expression.value.node # "AssignmentExpression"
             /\ lookup(symbol_table, call'.node.expression.identifier) # 0
             /\ symbol_table.all_symbols[
                    lookup(symbol_table, call'.node.expression.identifier)].symbol_type
                  = "CONSTANT" ) =>
                ConstantErrors(builder'.errors) = ConstantErrors(builder.errors) + 1
        /\ ( /\ call'.op = "update_symbol_value"
             /\ lookup(symbol_table, call'.name) # 0
             /\ symbol_table.all_symbols[lookup(symbol_table, call'.name)].symbol_type
                  = "CONSTANT" ) =>
                /\ call'.raised = SymbolTableError(TextConstant, call'.name)
                /\ symbol_table' = symbol_table
                /\ builder' = builder
    ]_vars

\* witness of C4: `x = 2;` was just visited while x is a constant holding 1
C4_Witness ==
    /\ call.op = "visit"
    /\ call.node = ExpressionStatement(AssignmentExpression(X, Num2))
    /\ builder.errors # <<>>
    /\ LastError = Msg(TextConstant, X)
    /\ lookup(symbol_table, X) # 0
    /\ symbol_table.all_symbols[lookup(symbol_table, X)].symbol_type = "CONSTANT"
    /\ symbol_table.all_symbols[lookup(symbol_table, X)].value = PyInt(1)
    /\ symbol_table.all_symbols[lookup(symbol_table, X)].is_initialized

\* the number of places where expression e uses the name: as an identifier,
\* a call's callee or an assignment's target
RECURSIVE Uses(_, _)
RECURSIVE UsesAll(_, _)
UsesAll(es, name) ==
    IF es = <<>> THEN 0 ELSE Uses(Head(es), name) + UsesAll(Tail(es), name)
Uses(e, name) ==
    CASE e.node = "Identifier" -> IF e.name = name THEN 1 ELSE 0
      [] e.node = "AssignmentExpression" ->
            (IF e.identifier = name THEN 1 ELSE 0) + Uses(e.value, name)
      [] e.node = "BinaryExpression" -> Uses(e.left, name) + Uses(e.right, name)
      [] e.node = "UnaryExpression" -> Uses(e.operand, name)
      [] e.node = "CallExpression" -> Uses(e.callee, name) + UsesAll(e.arguments, name)
      [] OTHER -> 0

\* the expression a statement without nested statements evaluates
ExpressionOf(stmt) ==
    CASE stmt.node = "VarDeclaration" -> stmt.initializer
      [] stmt.node = "ExpressionStatement" -> stmt.expression
      [] stmt.node = "PrintStatement" -> stmt.expression
      [] stmt.node = "ReturnStatement" -> stmt.value
      [] OTHER -> NoneNode

NewErrorsNaming(name) ==
    Cardinality({i \in (Len(builder.errors) + 1)..Len(builder'.errors) :
                    builder'.errors[i].name = name})

\* C5: visiting an expression statement, a print, a return or a var/const
\* declaration adds, for every name that no scope from the current one up to
\* the global one declares, at least one error per use of that name in the
\* statement's expression.
C5_UndeclaredUseReported ==
    [][call'.op = "visit" =>
        \A name \in {X, Y, F} :
            lookup(symbol_table, name) = 0 =>
                NewErrorsNaming(name) >= Uses(ExpressionOf(call'.node), name)
    ]_vars

\* C6: after the duplicate-declaration error of a function declaration the
\* builder still visits the function's body and stays in build(): the
\* variables the body declares are added to all_symbols and the undeclared
\* names its expression statements use are reported.
C6_ErrorDoesNotStopResolution ==
    [][(/\ call'.op = "visit"
        /\ call'.node.node = "FunctionDeclaration"
        /\ DeclaredHere(symbol_table, call'.node.name)) =>
            /\ builder'.pc = "building"
            /\ \A j \in 1..Len(call'.node.body.statements) :
                  LET s == call'.node.body.statements[j]
                      params == {call'.node.params[i] : i \in 1..Len(call'.node.params)}
                  IN  /\ s.node = "VarDeclaration" =>
                            \E i \in (Len(symbol_table.all_symbols) + 1)
                                        ..Len(symbol_table'.all_symbols) :
                                symbol_table'.all_symbols[i].name = s.identifier
                      /\ (/\ s.node = "ExpressionStatement"
                          /\ s.expression.node = "Identifier"
                          /\ s.expression.name \notin params
                          /\ lookup(symbol_table, s.expression.name) = 0) =>
                            NewErrorsNaming(s.expression.name) >= 1
    ]_vars

\* C7 (state part): the scopes form a tree rooted at the global scope
ScopesFormATree ==
    LET scopes == symbol_table.scopes
        Refs == 1..Len(scopes)
        Occurrences(p, s) ==
            Cardinality({i \in 1..Len(scopes[p].children) : scopes[p].children[i] = s})
    IN  /\ scopes[1].parent = 0
        /\ \A p \in Refs : Occurrences(p, 1) = 0
        /\ \A s \in Refs \ {1} :
              /\ scopes[s].parent \in Refs
              /\ scopes[s].parent < s
              /\ \A p \in Refs :
                    Occurrences(p, s) = IF p = scopes[s].parent THEN 1 ELSE 0
        /\ \A p \in Refs : \A i \in 1..Len(scopes[p].children) :
              scopes[p].children[i] \in Refs
        /\ symbol_table.current_scope \in Refs

\* C7: in every state reached by enter_scope, exit_scope and declare_* calls
\* the scopes form a tree (the global scope has no parent and is nobody's
\* child, every other scope has one parent and occurs exactly once, in that
\* parent's children), current_scope is a scope of the tree, and exit_scope
\* in the global scope raises SymbolTableError and changes nothing.
C7_ScopeTree ==
    /\ []ScopesFormATree
    /\ [][(call'.op = "exit_scope" /\ symbol_table.current_scope = 1) =>
            /\ call'.raised.kind = "SymbolTableError"
            /\ symbol_table' = symbol_table]_vars

\* witness of C7: exit_scope was just rejected in the global scope of a tree
\* whose root has two children
C7_Witness ==
    /\ call.op = "exit_scope"
    /\ Raised(call.raised)
    /\ symbol_table.current_scope = 1
    /\ Len(symbol_table.scopes[1].children) = 2
    /\ symbol_table.all_symbols # <<>>

(***************************************************************************)
(* Claims about the Lexer                                                  *)
(***************************************************************************)
Quotes == {"\"", "'"}

\* the indices of src that lie in a // comment, by the lexical structure of
\* the language: a comment starts at "//" outside a string literal and runs
\* to the end of its line; mode is "code", "comment" or the quote character
\* of the string literal being read
RECURSIVE CommentChars(_, _, _)
CommentChars(src, i, mode) ==
    IF i > Len(src) THEN {}
    ELSE CASE mode = "comment" ->
                IF src[i] = "\n" THEN CommentChars(src, i + 1, "code")
                ELSE {i} \cup CommentChars(src, i + 1, "comment")
           [] mode = "code" ->
                IF src[i] \in Quotes THEN CommentChars(src, i + 1, src[i])
                ELSE IF src[i] = "/" /\ i < Len(src) /\ src[i + 1] = "/"
                THEN {i} \cup CommentChars(src, i + 1, "comment")
                ELSE CommentChars(src, i + 1, "code")
           [] OTHER ->
                IF src[i] = "\\" THEN CommentChars(src, i + 2, mode)
                ELSE IF src[i] = mode THEN CommentChars(src, i + 1, "code")
                ELSE CommentChars(src, i + 1, mode)

\* the token list lies in the source as it is ordered in the list
InSourceOrder(L) ==
    LET n == Len(L.tokens)
        src == L.source_code
    IN  /\ Len(L.spans) = n
        /\ \A i \in 1..n :
            LET t == L.tokens[i]
                s == L.spans[i]
            IN  /\ 0 <= s.start /\ s.start <= s.end /\ s.end <= Len(src)
                /\ i < n => s.end <= L.spans[i + 1].start
                /\ CASE t.type = "EOF" -> s.start = Len(src)
                     [] t.type = "NEWLINE" -> SubSeq(src, s.start + 1, s.end) = <<"\n">>
                     [] t.type = "STRING_LITERAL" ->
                            /\ s.end >= s.start + 2
                            /\ src[s.start + 1] \in Quotes
                            /\ src[s.end] = src[s.start + 1]
                     [] OTHER -> SubSeq(src, s.start + 1, s.end) = t.value

\* C9: when tokenize returns, the tokens are in source order (each token's
\* lexeme lies in the source after the lexeme of the token before it), the
\* list holds exactly one EOF token, which is its last element, and no token
\* comes from a comment: there is no COMMENT token and no lexeme overlaps a
\* comment.
C9_TokensInSourceOrderOneEOF ==
    lexer.pc = "returned" =>
        LET n == Len(lexer.tokens)
        IN  /\ n >= 1
            /\ lexer.tokens[n].type = "EOF"
            /\ \A i \in 1..(n - 1) : lexer.tokens[i].type # "EOF"
            /\ InSourceOrder(lexer)
            /\ \A i \in 1..n :
                /\ lexer.tokens[i].type # "COMMENT"
                /\ \A p \in (lexer.spans[i].start + 1)..lexer.spans[i].end :
                      p \notin CommentChars(lexer.source_code, 1, "code")

\* tokenize has returned for a source with a comment between two tokens
C9_Witness ==
    /\ lexer.pc = "returned"
    /\ Len(lexer.tokens) >= 3
    /\ \E p \in CommentChars(lexer.source_code, 1, "code") :
          /\ lexer.spans[1].end < p
          /\ p <= lexer.spans[2].start

\* the string literal opened at index i - 1 with quote q is closed
RECURSIVE Closes(_, _, _)
Closes(src, i, q) ==
    IF i > Len(src) THEN FALSE
    ELSE IF src[i] = "\\" THEN Closes(src, i + 2, q)
    ELSE IF src[i] = q THEN TRUE
    ELSE Closes(src, i + 1, q)

\* the next token of the lexer is a string literal whose closing quote is missing
AtUnterminatedString(L) ==
    LET S == skip_whitespace(L)
    IN  /\ L.pc = "tokenize"
        /\ current_char(S) \in Quotes
        /\ ~Closes(S.source_code, S.position + 2, current_char(S))

\* C10: when the next token is a string literal whose closing quote is
\* missing, tokenize aborts with the unterminated-string error, whose line
\* is the line on which the literal starts, also when the literal extends
\* over several lines; no token list is returned and no token is added.
C10_UnterminatedStringCitesStartLine ==
    [][AtUnterminatedString(lexer) =>
          /\ lexer'.pc = "raised"
          /\ lexer'.raised.kind = "Exception"
          /\ lexer'.raised.msg.text = TextUnterminated
          /\ lexer'.raised.msg.line = lexer.line
          /\ lexer'.tokens = lexer.tokens]_vars

(***************************************************************************)
(* Claims about the Parser                                                 *)
(***************************************************************************)
\* C8: parse never raises for the tokens the Lexer produces: no exception
\* leaves parse, and every ParseError raised in an iteration of its loop
\* adds exactly one message to errors and no statement, and leaves the
\* parser synchronized past the token it was at (at the end, after a ';'
\* or before a statement keyword).
C8_ParseNeverRaises ==
    /\ [](parser.pc # "raised")
    /\ [][call'.op = "declaration" /\ call'.raised.kind = "ParseError" =>
            /\ parser'.errors = Append(parser.errors, call'.raised.msg)
            /\ parser'.statements = parser.statements
            /\ parser'.pc = "parse"
            /\ \/ is_at_end(parser')
               \/ /\ parser'.current > parser.current
                  /\ \/ previous(parser').type = "SEMICOLON"
                     \/ peek(parser').type \in SynchronizeTypes]_vars

(***************************************************************************)
(* Claims about the translators                                            *)
(***************************************************************************)
\* the identifiers the conditions of the programs test
CondNames == {X, Y}

\* a statement built only from if/else over identifiers, blocks and print
RECURSIVE IfElseOnly(_)
IfElseOnly(node) ==
    CASE node.node = "None" -> TRUE
      [] node.node = "PrintStatement" -> node.expression.node = "NumberLiteral"
      [] node.node = "BlockStatement" ->
            \A i \in 1..Len(node.statements) : IfElseOnly(node.statements[i])
      [] node.node = "IfStatement" ->
            /\ node.condition.node = "Identifier"
            /\ IfElseOnly(node.then_branch)
            /\ IfElseOnly(node.else_branch)
      [] OTHER -> FALSE

\* the statements the source executes when exactly the conditions in A hold
RECURSIVE RunSource(_, _), RunSourceAll(_, _)
RunSourceAll(nodes, A) ==
    IF nodes = <<>> THEN <<>>
    ELSE RunSource(Head(nodes), A) \o RunSourceAll(Tail(nodes), A)
RunSource(node, A) ==
    CASE node.node = "None" -> <<>>
      [] node.node = "PrintStatement" ->
            <<<<"p", "r", "i", "n", "t", "(">> \o str_int(node.expression.value.n) \o <<")">>>>
      [] node.node = "BlockStatement" -> RunSourceAll(node.statements, A)
      [] node.node = "IfStatement" ->
            IF node.condition.name \in A THEN RunSource(node.then_branch, A)
            ELSE RunSource(node.else_branch, A)

\* the output read as Python: the lines that are code, the indentation of a
\* line, and the run of a block of lines at one indentation
CodeLines(lines) ==
    SelectSeq(lines, LAMBDA line : strip(line) # <<>> /\ ~startswith(lstrip(line), <<"#">>))
Indent(line) == Len(line) - Len(lstrip(line))
IsIf(text) == startswith(text, <<"i", "f", " ">>) /\ endswith(text, <<":">>)
CondOf(text) == SubSeq(text, 4, Len(text) - 1)
Ran(ok, trace, next) == [ok |-> ok, trace |-> trace, next |-> next]
HasBody(L, i, ind) == i + 1 <= Len(L) /\ Indent(L[i + 1]) > ind

RECURSIVE RunBlock(_, _, _, _), RunIf(_, _, _, _), RunElse(_, _, _, _)
RunBlock(L, i, ind, A) ==
    IF i > Len(L) THEN Ran(TRUE, <<>>, i)
    ELSE IF Indent(L[i]) < ind THEN Ran(TRUE, <<>>, i)
    ELSE IF Indent(L[i]) > ind THEN Ran(FALSE, <<>>, i)
    ELSE IF IsIf(lstrip(L[i])) THEN RunIf(L, i, ind, A)
    ELSE IF lstrip(L[i]) = <<"e", "l", "s", "e", ":">> THEN Ran(FALSE, <<>>, i)
    ELSE Do(RunBlock(L, i + 1, ind, A), LAMBDA rest :
            Ran(rest.ok, <<lstrip(L[i])>> \o rest.trace, rest.next))
RunElse(L, j, ind, A) ==
    IF j <= Len(L) /\ Indent(L[j]) = ind /\ lstrip(L[j]) = <<"e", "l", "s", "e", ":">>
    THEN IF HasBody(L, j, ind) THEN RunBlock(L, j + 1, Indent(L[j + 1]), A)
         ELSE Ran(FALSE, <<>>, j + 1)
    ELSE Ran(TRUE, <<>>, j)
RunIf(L, i, ind, A) ==
    IF ~HasBody(L, i, ind) THEN Ran(FALSE, <<>>, i)
    ELSE Do(RunBlock(L, i + 1, Indent(L[i + 1]), A), LAMBDA then_block :
         Do(RunElse(L, then_block.next, ind, A), LAMBDA else_block :
         Do(RunBlock(L, else_block.next, ind, A), LAMBDA rest :
            Ran(then_block.ok /\ else_block.ok /\ rest.ok,
                (IF CondOf(lstrip(L[i])) \in A THEN then_block.trace
                 ELSE else_block.trace) \o rest.trace,
                rest.next))))

\* the statements the output executes when exactly the conditions in A hold;
\* ok is FALSE for an output that is not a program (an `if` without a body)
RunOutput(lines, A) ==
    Do(RunBlock(CodeLines(lines), 1, 0, A), LAMBDA run :
       [ok |-> run.ok /\ run.next > Len(CodeLines(lines)), trace |-> run.trace])

\* C1: for every program built only from (possibly nested) if/else statements
\* and print statements, the output of PythonTranslator.translate over the code
\* CodeGenerator produced branches as the source does: under every truth
\* assignment to the conditions the output executes exactly the statements
\* the source executes, in the same order.
C1_IfElseBranchesIdentically ==
    /\ translator.pc = "returned"
    /\ \A i \in 1..Len(translator.ast) : IfElseOnly(translator.ast[i])
    => \A A \in SUBSET CondNames :
          RunOutput(translator.python.output_lines, A)
            = [ok |-> TRUE, trace |-> RunSourceAll(translator.ast, A)]

\* a straight-line statement: a declaration, an expression statement, a print
StraightLine(node) ==
    node.node \in {"VarDeclaration", "ExpressionStatement", "PrintStatement"}

\* the instructions that compute or output a value
ValueOps ==
    {"ASSIGN", "NOT", "NEG", "CALL", "PRINT"}
    \cup ArithmeticOps \cup ComparisonOps \cup LogicalOps

\* the lines after the heading of the main code that are statements
RECURSIVE MainLines(_)
MainLines(lines) ==
    IF lines = <<>> THEN <<>>
    ELSE IF Head(lines) = <<"#", " ", "C", "oacute", "d", "i", "g", "o", " ", "p", "r", "i", "n", "c", "i", "p", "a", "l">> THEN Tail(lines)
    ELSE MainLines(Tail(lines))
Executable(lines) ==
    SelectSeq(lines, LAMBDA line : strip(line) # <<>> /\ ~startswith(lstrip(line), <<"#">>))

\* the line is the statement of the instruction: it prints, or it assigns to
\* the result of the instruction
YieldedBy(inst, line) ==
    IF inst.op = "PRINT" THEN startswith(line, <<"p", "r", "i", "n", "t", "(">>)
    ELSE startswith(line, str(inst.result) \o <<" ", "=", " ">>)

\* C2: for every program of straight-line statements, the text that
\* SimplifiedPythonTranslator.translate emits has one executable statement for
\* every instruction that computes or outputs a value, none dropped, in the
\* order of the instructions.
C2_StraightLineReproduced ==
    /\ translator.pc = "simplified"
    /\ \A i \in 1..Len(translator.ast) : StraightLine(translator.ast[i])
    => /\ Len(Executable(MainLines(translator.simplified.code_lines)))
            = Len(SelectSeq(translator.generator.code.instructions,
                            LAMBDA inst : inst.op \in ValueOps))
       /\ \A k \in 1..Len(Executable(MainLines(translator.simplified.code_lines))) :
            YieldedBy(SelectSeq(translator.generator.code.instructions,
                                LAMBDA inst : inst.op \in ValueOps)[k],
                      Executable(MainLines(translator.simplified.code_lines))[k])

(***************************************************************************)
(* Claims about the pipeline                                               *)
(***************************************************************************)
\* the names new_temp and new_label have returned so far
Temporaries(code) == {<<"t">> \o str_int(n) : n \in 1..code.temp_counter}
Labels(code) == {<<"L">> \o str_int(n) : n \in 1..code.label_counter}

\* the identifiers the Lexer accepted from the source text
SourceIdentifiers(tokens) ==
    {tokens[i].value : i \in {j \in 1..Len(tokens) : tokens[j].type = "IDENTIFIER"}}

\* C11: within one compilation the names returned by new_temp and new_label
\* are pairwise distinct, and none of them equals an identifier that the
\* Lexer accepted from the source text.
C11_GeneratedNamesNeverSourceIdentifiers ==
    translator.pc # "idle"
    => /\ Cardinality(Temporaries(translator.generator.code)
                      \cup Labels(translator.generator.code))
            = translator.generator.code.temp_counter
              + translator.generator.code.label_counter
       /\ (Temporaries(translator.generator.code) \cup Labels(translator.generator.code))
            \cap SourceIdentifiers(lexer.tokens) = {}

\* the part of C11 that holds: the names are pairwise distinct
C11_GeneratedNamesDistinct ==
    translator.pc # "idle"
    => Cardinality(Temporaries(translator.generator.code)
                   \cup Labels(translator.generator.code))
          = translator.generator.code.temp_counter
            + translator.generator.code.label_counter

\* the stages the driver has called in this run
Called(stage) == \E i \in 1..Len(pipeline.stages) : pipeline.stages[i] = stage

StageOrder == <<"lexer", "parser", "builder", "generator", "translator", "write">>

\* C13: the driver calls the stages in the order lexer, parser, builder,
\* generator, translator and then writes the output; when the lexer raises no
\* later stage is called, and when the parser raises or reports a syntax error
\* the builder, the generator and the translator are not called and no output
\* is written.
C13_StagesInOrderStopOnFailure ==
    /\ Len(pipeline.stages) <= Len(StageOrder)
    /\ pipeline.stages = SubSeq(StageOrder, 1, Len(pipeline.stages))
    /\ Called("lexer") /\ Raised(lexer.raised) => pipeline.stages = <<"lexer">>
    /\ Called("parser") /\ (Raised(parser.raised) \/ parser.errors # <<>>)
          => /\ pipeline.stages = <<"lexer", "parser">>
             /\ pipeline.output_file = PyNone

\* the driver has ended after the parser reported a syntax error
C13_Witness ==
    /\ pipeline.pc = "done"
    /\ Called("parser")
    /\ parser.errors # <<>>
    /\ ~Raised(parser.raised)

\* the driver has ended after the lexer raised
C13_WitnessLexer ==
    /\ pipeline.pc = "done"
    /\ Called("lexer")
    /\ Raised(lexer.raised)

\* the message names a line of the source text
CarriesLine(msg) == "line" \in DOMAIN msg /\ msg.line >= 1

\* C14: every error string carries the line of the construct that caused it:
\* the message of a lexer exception, every entry of Parser.errors and every
\* entry of SymbolTableBuilder.errors.
C14_EveryErrorCarriesLine ==
    /\ Raised(lexer.raised) => CarriesLine(lexer.raised.msg)
    /\ \A i \in 1..Len(parser.errors) : CarriesLine(parser.errors[i])
    /\ \A i \in 1..Len(builder.errors) : CarriesLine(builder.errors[i])

(***************************************************************************)
(* Claims about the scopes of the builder                                  *)
(***************************************************************************)
\* C15: SymbolTableBuilder keeps scope entry and exit balanced: visiting a
\* statement, also one in which a semantic error was recorded (a duplicate
\* function name, a duplicate parameter name), leaves current_scope the scope
\* it was before the visit, and when build() has returned current_scope is
\* the global scope.
C15_ScopesBalanced ==
    /\ [][call'.op = "visit" =>
            symbol_table'.current_scope = symbol_table.current_scope]_vars
    /\ [](builder.pc = "returned" => symbol_table.current_scope = 1)

\* the scopes on the path from scope s to the global scope, innermost first
RECURSIVE Enclosing(_, _)
Enclosing(T, s) == IF s = 0 THEN <<>> ELSE <<s>> \o Enclosing(T, T.scopes[s].parent)

\* the places on that path of the scopes that declare the name
Declaring(T, name) ==
    {i \in 1..Len(Enclosing(T, T.current_scope)) :
        name \in DOMAIN T.scopes[Enclosing(T, T.current_scope)[i]].symbols}

\* ref is the symbol of the innermost enclosing scope that declares the name,
\* or nothing when no enclosing scope declares it
Resolves(T, name, ref) ==
    IF Declaring(T, name) = {} THEN ref = 0
    ELSE \E i \in Declaring(T, name) :
            /\ \A j \in Declaring(T, name) : i <= j
            /\ ref = T.scopes[Enclosing(T, T.current_scope)[i]].symbols[name]

\* a function with the parameter x whose body assigns 2 to x
AssignsParameter(node) ==
    /\ node.node = "FunctionDeclaration"
    /\ node.params = <<X>>
    /\ node.body = BlockStatement(<<ExpressionStatement(AssignmentExpression(X, Num2))>>)

\* C16: lookup resolves a name to the symbol of the innermost scope, on the
\* path from current_scope to the global scope, that declares it, and to
\* nothing only when no scope on that path declares it; a scope that was
\* exited is not on the path.  Inside a function body a reference to a
\* parameter resolves to the PARAMETER symbol, also when an outer scope
\* declares the name: the assignment in the body records no error, sets the
\* value of the parameter and leaves every older symbol as it was.
C16_LookupInnermost ==
    /\ [](\A name \in {X, Y, F} :
            Resolves(symbol_table, name, lookup(symbol_table, name)))
    /\ [][/\ call'.op = "visit"
          /\ AssignsParameter(call'.node)
          /\ ~DeclaredHere(symbol_table, call'.node.name)
          => /\ builder'.errors = builder.errors
             /\ Len(symbol_table'.all_symbols) = Len(symbol_table.all_symbols) + 2
             /\ symbol_table'.all_symbols[Len(symbol_table'.all_symbols)].name = X
             /\ symbol_table'.all_symbols[Len(symbol_table'.all_symbols)].symbol_type
                    = "PARAMETER"
             /\ symbol_table'.all_symbols[Len(symbol_table'.all_symbols)].value
                    = PyInt(2)
             /\ SubSeq(symbol_table'.all_symbols, 1, Len(symbol_table.all_symbols) + 1)
                    = Append(symbol_table.all_symbols,
                             symbol_table'.all_symbols[Len(symbol_table.all_symbols) + 1])
         ]_vars

\* the body of a function has assigned to its parameter x while the global
\* scope declares x too; the scope of the function has been exited and x
\* resolves to the global symbol again
C16_Witness ==
    /\ call.op = "visit"
    /\ AssignsParameter(call.node)
    /\ Len(symbol_table.all_symbols) = 3
    /\ symbol_table.all_symbols[1].name = X
    /\ symbol_table.all_symbols[1].value # PyInt(2)
    /\ symbol_table.all_symbols[3].symbol_type = "PARAMETER"
    /\ symbol_table.all_symbols[3].value = PyInt(2)
    /\ symbol_table.current_scope = 1
    /\ lookup(symbol_table, X) = 1

(***************************************************************************)
(* Claims about the recovery of the Parser                                 *)
(***************************************************************************)
\* the token types that begin a new statement or declaration
StatementStarts == {"IF", "FOR", "WHILE", "VAR", "FUNCTION", "RETURN", "PRINT"}

\* declaration() has just raised a ParseError at position `at` (the number
\* of tokens consumed when it was raised) and parse has synchronized
Recovered(at) ==
    \* the offending token is consumed, unless it is EOF
    /\ IF parser.tokens[at + 1].type = "EOF" THEN parser'.current = at
       ELSE parser'.current >= at + 1
    \* the parser is at a boundary
    /\ \/ is_at_end(parser')
       \/ previous(parser').type = "SEMICOLON"
       \/ peek(parser').type \in StatementStarts
    \* and at the first one: no token that begins a statement was discarded
    \* after the offending token, and nothing was discarded after a semicolon
    /\ \A k \in (at + 2)..parser'.current : parser.tokens[k].type \notin StatementStarts
    /\ \A k \in (at + 1)..(parser'.current - 1) : parser.tokens[k].type # "SEMICOLON"
    \* parsing of declarations goes on from there
    /\ parser'.tokens = parser.tokens
    /\ parser'.pc = "parse"
    /\ parser'.statements = parser.statements

\* C17: after a parse error, synchronize consumes the offending token and
\* then discards tokens until the token just consumed is a semicolon or the
\* next token is one of if, for, while, var, function, return, print, or EOF;
\* the parser is then exactly at that boundary, no token that begins a new
\* statement was discarded other than the offending token, and parse goes on
\* with declaration() from there.
C17_SynchronizeStopsAtBoundary ==
    [][call'.op = "declaration" /\ call'.raised.kind = "ParseError"
          => Recovered(call'.value.n)]_vars

\* a recovery has discarded more than the offending token and has stopped
\* before a token that begins a statement, with tokens left to parse
C17_Witness ==
    /\ call.op = "declaration"
    /\ call.raised.kind = "ParseError"
    /\ parser.current >= call.value.n + 2
    /\ ~is_at_end(parser)
    /\ previous(parser).type # "SEMICOLON"
    /\ peek(parser).type \in StatementStarts

(***************************************************************************)
(* Claims about the CodeGenerator                                          *)
(***************************************************************************)
\* the nodes of a tree
RECURSIVE Nodes(_)
RECURSIVE NodesAll(_)
NodesAll(ns) == IF ns = <<>> THEN {} ELSE Nodes(Head(ns)) \cup NodesAll(Tail(ns))
Nodes(n) ==
    {n} \cup
    CASE n.node = "VarDeclaration" -> Nodes(n.initializer)
      [] n.node = "FunctionDeclaration" -> Nodes(n.body)
      [] n.node = "BlockStatement" -> NodesAll(n.statements)
      [] n.node = "IfStatement" ->
            Nodes(n.condition) \cup Nodes(n.then_branch) \cup Nodes(n.else_branch)
      [] n.node = "WhileStatement" -> Nodes(n.condition) \cup Nodes(n.body)
      [] n.node = "ForStatement" ->
            Nodes(n.init) \cup Nodes(n.condition) \cup Nodes(n.update) \cup Nodes(n.body)
      [] n.node \in {"ReturnStatement"} -> Nodes(n.value)
      [] n.node \in {"PrintStatement", "ExpressionStatement"} -> Nodes(n.expression)
      [] n.node = "BinaryExpression" -> Nodes(n.left) \cup Nodes(n.right)
      [] n.node = "UnaryExpression" -> Nodes(n.operand)
      [] n.node = "AssignmentExpression" -> Nodes(n.value)
      [] n.node = "CallExpression" -> Nodes(n.callee) \cup NodesAll(n.arguments)
      [] OTHER -> {}

\* the nodes of one kind in the program being generated
ProgramNodes(kind) == {n \in NodesAll(translator.ast) : n.node = kind}

\* the instructions generator H holds beyond those of generator G
Emitted(G, H) ==
    SubSeq(H.code.instructions, Len(G.code.instructions) + 1, Len(H.code.instructions))

\* the n-th label after those G has handed out
Fresh(G, n) == PyStr(<<"L">> \o str_int(G.code.label_counter + n))

\* generator G after it has handed out n more labels and emitted instructions
Then(G, n, instructions) ==
    [G EXCEPT !.code.label_counter = @ + n, !.code.instructions = @ \o instructions]

\* the generator after node (absent or not) has been visited
Visited(G, node) == IF IsNone(node) THEN G ELSE accept(G, node).g

CountOp(instructions, op) ==
    Cardinality({i \in 1..Len(instructions) : instructions[i].op = op})

\* the labels named by the LABEL instructions
LabelsOf(instructions) ==
    {instructions[i].arg1 : i \in {j \in 1..Len(instructions) : instructions[j].op = "LABEL"}}

\* visiting the if statement from generator G emits the condition, IF_FALSE
\* to Lelse, the then branch, GOTO Lend, LABEL Lelse, the else branch if there
\* is one, LABEL Lend
IfShape(G, node) ==
    LET condition == accept(G, node.condition)
        Lelse == Fresh(condition.g, 1)
        Lend == Fresh(condition.g, 2)
        test == <<Instruction("IF_FALSE", condition.value, Lelse, PyNone)>>
        G1 == Then(condition.g, 2, test)
        G2 == Visited(G1, node.then_branch)
        middle == <<Instruction("GOTO", Lend, PyNone, PyNone),
                    Instruction("LABEL", Lelse, PyNone, PyNone)>>
        G3 == Then(G2, 0, middle)
        G4 == Visited(G3, node.else_branch)
        end == <<Instruction("LABEL", Lend, PyNone, PyNone)>>
        all == Emitted(G, accept(G, node).g)
    IN  /\ all = Emitted(G, condition.g) \o test \o Emitted(G1, G2) \o middle
                    \o Emitted(G3, G4) \o end
        /\ Lelse # Lend
        /\ {Lelse, Lend} \cap LabelsOf(G.code.instructions) = {}
        /\ {Lelse, Lend} \cap LabelsOf(Emitted(G, condition.g) \o Emitted(G1, G2)
                                        \o Emitted(G3, G4)) = {}
        /\ \A op \in {"IF_FALSE", "GOTO", "LABEL"} :
              CountOp(all, op) =
                  CountOp(Emitted(G, condition.g), op) + CountOp(Emitted(G1, G2), op)
                  + CountOp(Emitted(G3, G4), op) + (IF op = "LABEL" THEN 2 ELSE 1)

\* C18: for every if statement the CodeGenerator emits, in this order, the
\* instructions of the condition, IF_FALSE cond -> Lelse, the then branch,
\* GOTO Lend, LABEL Lelse, the else branch when there is one, LABEL Lend, with
\* Lelse and Lend two distinct fresh labels; the statement itself adds one
\* IF_FALSE, one GOTO and two LABEL, and what its nested statements emit lies
\* inside the range of their branch.  Stated for every if statement of the
\* program, at top level or nested, from every generator state reached, and
\* on the step that generates a top-level if statement.
C18_IfEmission ==
    /\ [](\A node \in ProgramNodes("IfStatement") : IfShape(translator.generator, node))
    /\ [][call'.op = "accept" /\ call'.node.node = "IfStatement"
            => /\ IfShape(translator.generator, call'.node)
               /\ translator'.generator = accept(translator.generator, call'.node).g
          ]_vars

\* an if statement with an else branch and an if statement nested in its
\* then branch has been generated after another statement
C18_Witness ==
    /\ call.op = "accept"
    /\ call.node.node = "IfStatement"
    /\ ~IsNone(call.node.else_branch)
    /\ \E n \in Nodes(call.node.then_branch) : n.node = "IfStatement"
    /\ translator.visited = 2
    /\ CountOp(translator.generator.code.instructions, "IF_FALSE") = 2

\* generator G after a loop has recorded its break and continue labels
Pushed(G, break_label, continue_label) ==
    [G EXCEPT !.break_labels = @ \o <<break_label>>,
              !.continue_labels = @ \o <<continue_label>>]

SameStacks(G, H) ==
    /\ H.break_labels = G.break_labels
    /\ H.continue_labels = G.continue_labels

\* the generator states a loop of the program may be visited from: the one
\* reached, and the ones in which the body of a loop of the program is visited
LoopStarts ==
    {translator.generator}
    \cup {while_body_entry(translator.generator, n).g : n \in ProgramNodes("WhileStatement")}
    \cup {for_body_entry(translator.generator, n).g : n \in ProgramNodes("ForStatement")}

\* visiting the while statement from generator G emits LABEL Lstart, the
\* condition, IF_FALSE to Lend, the body, GOTO Lstart, LABEL Lend; the body is
\* visited with (Lend, Lstart) on top of the stacks, and the visit leaves the
\* stacks as they were
WhileShape(G, node) ==
    LET Lstart == Fresh(G, 1)
        Lend == Fresh(G, 2)
        head == <<Instruction("LABEL", Lstart, PyNone, PyNone)>>
        G1 == Pushed(Then(G, 2, head), Lend, Lstart)
        condition == accept(G1, node.condition)
        test == <<Instruction("IF_FALSE", condition.value, Lend, PyNone)>>
        G2 == Then(condition.g, 0, test)
        G3 == Visited(G2, node.body)
        tail == <<Instruction("GOTO", Lstart, PyNone, PyNone),
                  Instruction("LABEL", Lend, PyNone, PyNone)>>
        out == accept(G, node).g
    IN  /\ Emitted(G, out) = head \o Emitted(G1, condition.g) \o test
                              \o Emitted(G2, G3) \o tail
        /\ Lstart # Lend
        /\ {Lstart, Lend} \cap LabelsOf(G.code.instructions) = {}
        /\ {Lstart, Lend} \cap LabelsOf(Emitted(G1, condition.g) \o Emitted(G2, G3)) = {}
        /\ while_body_entry(G, node).g = G2
        /\ Len(G2.break_labels) = Len(G.break_labels) + 1
        /\ Len(G2.continue_labels) = Len(G2.break_labels)
        /\ SameStacks(G2, G3)
        /\ SameStacks(G, out)

\* C19: for every while statement the CodeGenerator emits, in this order,
\* LABEL Lstart, the instructions of the condition, IF_FALSE cond -> Lend, the
\* body, GOTO Lstart, LABEL Lend, with Lstart and Lend distinct fresh labels;
\* the break and continue labels are pushed on entry of the loop and popped on
\* its exit, so both stacks are as long as the loops are deep while the body
\* is generated, and both are empty between top-level statements and when
\* generate() returns.
C19_WhileEmission ==
    /\ [](/\ translator.generator.break_labels = <<>>
          /\ translator.generator.continue_labels = <<>>
          /\ \A node \in ProgramNodes("WhileStatement") : \A G \in LoopStarts :
                WhileShape(G, node))
    /\ [][call'.op = "accept" /\ call'.node.node = "WhileStatement"
            => /\ WhileShape(translator.generator, call'.node)
               /\ translator'.generator = accept(translator.generator, call'.node).g
          ]_vars

\* a while statement with a while statement in its body has been generated:
\* the body of the inner one was visited with two labels on either stack
C19_Witness ==
    /\ call.op = "accept"
    /\ call.node.node = "WhileStatement"
    /\ \E n \in Nodes(call.node.body) :
          /\ n.node = "WhileStatement"
          /\ \E G \in LoopStarts :
                /\ Len(G.break_labels) = 1
                /\ Len(while_body_entry(G, n).g.continue_labels) = 2
    /\ CountOp(translator.generator.code.instructions, "GOTO") = 2

\* visiting the for statement from generator G emits the init once, LABEL
\* Lstart, the condition and IF_FALSE to Lend when there is a condition, the
\* body, LABEL Lcontinue, the update, GOTO Lstart, LABEL Lend; the body is
\* visited with (Lend, Lcontinue) on top of the stacks
ForShape(G, node) ==
    LET G0 == Visited(G, node.init)
        Lstart == Fresh(G0, 1)
        Lend == Fresh(G0, 2)
        Lcontinue == Fresh(G0, 3)
        head == <<Instruction("LABEL", Lstart, PyNone, PyNone)>>
        G1 == Pushed(Then(G0, 3, head), Lend, Lcontinue)
        G2 == IF IsNone(node.condition) THEN G1
              ELSE Then(accept(G1, node.condition).g, 0,
                        <<Instruction("IF_FALSE", accept(G1, node.condition).value,
                                      Lend, PyNone)>>)
        G3 == Visited(G2, node.body)
        continue == <<Instruction("LABEL", Lcontinue, PyNone, PyNone)>>
        G4 == Then(G3, 0, continue)
        G5 == Visited(G4, node.update)
        tail == <<Instruction("GOTO", Lstart, PyNone, PyNone),
                  Instruction("LABEL", Lend, PyNone, PyNone)>>
        out == accept(G, node).g
    IN  /\ Emitted(G, out) = Emitted(G, G0) \o head \o Emitted(G1, G2) \o Emitted(G2, G3)
                              \o continue \o Emitted(G4, G5) \o tail
        /\ Cardinality({Lstart, Lend, Lcontinue}) = 3
        /\ {Lstart, Lend, Lcontinue} \cap LabelsOf(G.code.instructions) = {}
        /\ {Lstart, Lend, Lcontinue}
              \cap LabelsOf(Emitted(G, G0) \o Emitted(G1, G2) \o Emitted(G2, G3)
                            \o Emitted(G4, G5)) = {}
        /\ CountOp(Emitted(G1, G2), "IF_FALSE")
              = IF IsNone(node.condition) THEN 0
                ELSE CountOp(Emitted(G1, accept(G1, node.condition).g), "IF_FALSE") + 1
        /\ for_body_entry(G, node).g = G2
        /\ G2.continue_labels[Len(G2.continue_labels)] = Lcontinue
        /\ G2.continue_labels[Len(G2.continue_labels)] # Lstart
        /\ G2.break_labels[Len(G2.break_labels)] = Lend
        /\ SameStacks(G, out)

\* C20: for every for statement the CodeGenerator emits the init once before
\* the loop, then LABEL Lstart, the condition and IF_FALSE cond -> Lend when
\* there is a condition, the body, LABEL Lcontinue right before the update,
\* GOTO Lstart, LABEL Lend, with Lstart, Lend and Lcontinue three distinct
\* fresh labels; the continue label recorded for the loop is Lcontinue, not
\* Lstart.
C20_ForEmission ==
    /\ [](\A node \in ProgramNodes("ForStatement") : \A G \in LoopStarts :
            ForShape(G, node))
    /\ [][call'.op = "accept" /\ call'.node.node = "ForStatement"
            => /\ ForShape(translator.generator, call'.node)
               /\ translator'.generator = accept(translator.generator, call'.node).g
          ]_vars

\* a for statement with an init, a condition and an update has been
\* generated after another statement
C20_Witness ==
    /\ call.op = "accept"
    /\ call.node.node = "ForStatement"
    /\ ~IsNone(call.node.init)
    /\ ~IsNone(call.node.condition)
    /\ ~IsNone(call.node.update)
    /\ translator.visited = 2
    /\ CountOp(translator.generator.code.instructions, "LABEL") = 3
    /\ CountOp(translator.generator.code.instructions, "IF_FALSE") = 1

\* a for statement without a condition has been generated: no IF_FALSE
C20_WitnessBare ==
    /\ call.op = "accept"
    /\ call.node.node = "ForStatement"
    /\ IsNone(call.node.condition)
    /\ CountOp(translator.generator.code.instructions, "LABEL") = 3
    /\ CountOp(translator.generator.code.instructions, "IF_FALSE") = 0

(***************************************************************************)
(* Claims about functions, expressions and calls in the CodeGenerator      *)
(***************************************************************************)

\* the last instruction of the stream is a RETURN
EndsWithReturn(instructions) ==
    /\ instructions # <<>>
    /\ instructions[Len(instructions)].op = "RETURN"

\* FUNC_BEGIN and FUNC_END form properly nested pairs of the same name: open
\* holds the names of the functions begun and not yet ended
RECURSIVE FunctionsNested(_, _)
FunctionsNested(instructions, open) ==
    IF instructions = <<>> THEN open = <<>>
    ELSE IF Head(instructions).op = "FUNC_BEGIN"
    THEN FunctionsNested(Tail(instructions), Append(open, Head(instructions).arg1))
    ELSE IF Head(instructions).op = "FUNC_END"
    THEN /\ open # <<>>
         /\ open[Len(open)] = Head(instructions).arg1
         /\ FunctionsNested(Tail(instructions), SubSeq(open, 1, Len(open) - 1))
    ELSE FunctionsNested(Tail(instructions), open)

\* visiting the function declaration from generator G emits FUNC_BEGIN name,
\* the body, a bare RETURN exactly when the stream does not end with a RETURN,
\* FUNC_END name
FunctionShape(G, node) ==
    LET begin == <<Instruction("FUNC_BEGIN", PyStr(node.name), PyNone, PyNone)>>
        G1 == Then(G, 0, begin)
        G2 == Visited(G1, node.body)
        return == IF EndsWithReturn(G2.code.instructions) THEN <<>>
                  ELSE <<Instruction("RETURN", PyNone, PyNone, PyNone)>>
        end == <<Instruction("FUNC_END", PyStr(node.name), PyNone, PyNone)>>
    IN  Emitted(G, accept(G, node).g) = begin \o Emitted(G1, G2) \o return \o end

\* C21: for every function declaration the CodeGenerator emits FUNC_BEGIN
\* name, the instructions of the body, a bare RETURN exactly when the last
\* instruction emitted so far is not a RETURN, then FUNC_END name; in every
\* generated stream each FUNC_END comes right after a RETURN, and FUNC_BEGIN
\* and FUNC_END are properly nested pairs of the same name.
C21_FunctionEmission ==
    /\ [](\A node \in ProgramNodes("FunctionDeclaration") :
            FunctionShape(translator.generator, node))
    /\ [](LET instructions == translator.generator.code.instructions
          IN  /\ \A i \in 1..Len(instructions) :
                    instructions[i].op = "FUNC_END"
                    => i > 1 /\ instructions[i - 1].op = "RETURN"
              /\ FunctionsNested(instructions, <<>>))
    /\ [][call'.op = "accept" /\ call'.node.node = "FunctionDeclaration"
            => /\ FunctionShape(translator.generator, call'.node)
               /\ translator'.generator = accept(translator.generator, call'.node).g
          ]_vars

\* a function that declares a function has been generated: the inner one
\* ends with its own return, the outer one gets the bare RETURN
C21_Witness ==
    /\ call.op = "accept"
    /\ call.node.node = "FunctionDeclaration"
    /\ \E n \in Nodes(call.node.body) : n.node = "FunctionDeclaration"
    /\ CountOp(translator.generator.code.instructions, "FUNC_END") = 2
    /\ CountOp(translator.generator.code.instructions, "RETURN") = 2

\* a function whose body ends with a return has been generated: no RETURN
\* is added
C21_WitnessExplicit ==
    /\ call.op = "accept"
    /\ call.node.node = "FunctionDeclaration"
    /\ CountOp(translator.generator.code.instructions, "FUNC_END") = 1
    /\ CountOp(translator.generator.code.instructions, "RETURN") = 1
    /\ \E n \in Nodes(call.node.body) : n.node = "ReturnStatement"

\* the children of a node, absent ones included
Children(n) ==
    CASE n.node = "VarDeclaration" -> <<n.initializer>>
      [] n.node = "FunctionDeclaration" -> <<n.body>>
      [] n.node = "BlockStatement" -> n.statements
      [] n.node = "IfStatement" -> <<n.condition, n.then_branch, n.else_branch>>
      [] n.node = "WhileStatement" -> <<n.condition, n.body>>
      [] n.node = "ForStatement" -> <<n.init, n.condition, n.update, n.body>>
      [] n.node = "ReturnStatement" -> <<n.value>>
      [] n.node \in {"PrintStatement", "ExpressionStatement"} -> <<n.expression>>
      [] n.node = "BinaryExpression" -> <<n.left, n.right>>
      [] n.node = "UnaryExpression" -> <<n.operand>>
      [] n.node = "AssignmentExpression" -> <<n.value>>
      [] n.node = "CallExpression" -> <<n.callee>> \o n.arguments
      [] OTHER -> <<>>

\* how many nodes of the trees are of one of the kinds
RECURSIVE CountNodes(_, _)
CountNodes(ns, kinds) ==
    IF ns = <<>> THEN 0
    ELSE (IF Head(ns).node \in kinds THEN 1 ELSE 0)
         + CountNodes(Children(Head(ns)), kinds) + CountNodes(Tail(ns), kinds)

TemporaryKinds == {"BinaryExpression", "UnaryExpression", "CallExpression"}

\* visiting the expression from generator G hands out one temporary, the
\* next one, and the last instruction emitted is the only one whose result
\* is that temporary
OneTemporary(G, node) ==
    LET R == accept(G, node)
        emitted == Emitted(G, R.g)
    IN  /\ R.value = PyStr(<<"t">> \o str_int(R.g.code.temp_counter))
        /\ emitted # <<>>
        /\ \A i \in 1..Len(R.g.code.instructions) :
              R.g.code.instructions[i].result = R.value
              <=> i = Len(R.g.code.instructions)

\* visiting the assignment from generator G emits, after the instructions of
\* its value, one ASSIGN of that value to the name of the target
OneAssign(G, node) ==
    LET value == accept(G, node.value)
    IN  /\ Emitted(G, accept(G, node).g)
             = Emitted(G, value.g)
               \o <<Instruction("ASSIGN", value.value, PyNone, PyStr(node.identifier))>>
        /\ accept(G, node).value = PyStr(node.identifier)

\* the temporaries and CALL instructions of the generated code are as many
\* as the nodes that ask for them
TemporariesCounted ==
    /\ translator.generator.code.temp_counter = CountNodes(translator.ast, TemporaryKinds)
    /\ CountOp(translator.generator.code.instructions, "CALL")
          = CountNodes(translator.ast, {"CallExpression"})

\* C22: every binary, unary and call expression of the AST allocates exactly
\* one fresh temporary and emits exactly one instruction whose result is that
\* temporary, every assignment emits exactly one ASSIGN whose result is the
\* name of its target; after generate() temp_counter is the number of binary,
\* unary and call nodes of the AST and the number of CALL instructions is the
\* number of call expressions, each call of a chained call f()() included.
C22_OneTemporaryPerExpression ==
    translator.pc = "generated"
    => /\ \A node \in NodesAll(translator.ast) :
             /\ node.node \in TemporaryKinds => OneTemporary(CodeGenerator, node)
             /\ node.node = "AssignmentExpression" => OneAssign(CodeGenerator, node)
       /\ TemporariesCounted

\* the same for the programs where no call is the callee of a call
C22_WithoutChainedCalls ==
    /\ translator.pc = "generated"
    /\ \A node \in ProgramNodes("CallExpression") : node.callee.node = "Identifier"
    => /\ \A node \in NodesAll(translator.ast) :
             /\ node.node \in TemporaryKinds => OneTemporary(CodeGenerator, node)
             /\ node.node = "AssignmentExpression" => OneAssign(CodeGenerator, node)
       /\ TemporariesCounted

\* visiting the call from generator G emits one PARAM for each argument, in
\* the order of the arguments, and these PARAMs are the last instructions
\* before the CALL, whose arg2 is the number of arguments
ParamsThenCall(G, node) ==
    LET n == Len(node.arguments)
        emitted == Emitted(G, accept(G, node).g)
        k == Len(emitted)
    IN  /\ k > n
        /\ emitted[k].op = "CALL"
        /\ emitted[k].arg2 = PyInt(n)
        /\ \A i \in 1..n : emitted[k - n + i - 1].op = "PARAM"
        /\ \A i \in 1..n :
              emitted[k - n + i - 1].arg1
                 = accept(emit_params(G, SubSeq(node.arguments, 1, i - 1)),
                          node.arguments[i]).value

\* C23: for every call expression with n arguments the generator emits
\* exactly n PARAM instructions for it, in the order of the arguments, and
\* they are the n instructions right before the CALL of that call, with no
\* other instruction between the first of them and the CALL, also when an
\* argument is a compound expression or a call; arg2 of the CALL is n.
C23_ParamsImmediatelyBeforeCall ==
    \A node \in ProgramNodes("CallExpression") :
        ParamsThenCall(translator.generator, node)

\* the same for the calls whose arguments, the first one apart, are names
\* and literals
C23_SimpleArguments ==
    \A node \in ProgramNodes("CallExpression") :
        (\A i \in 2..Len(node.arguments) :
            node.arguments[i].node \in {"Identifier", "NumberLiteral", "StringLiteral",
                                        "BooleanLiteral"})
        => ParamsThenCall(translator.generator, node)

(***************************************************************************)
(* Claims about the PythonTranslator                                       *)
(***************************************************************************)
\* the instructions translate has no line of their own for
StructuralOps == {"LABEL", "GOTO", "PARAM", "IF_FALSE", "IF_TRUE"}

\* the lines after the header that are not the `if ...:` or `else:` of a
\* conditional jump
StatementLines(lines) ==
    SelectSeq(SubSeq(lines, 4, Len(lines)),
              LAMBDA line : ~IsIf(lstrip(line)) /\ lstrip(line) # <<"e", "l", "s", "e", ":">>)

\* C24: PythonTranslator.translate emits exactly one line for each
\* instruction that is not a LABEL, GOTO, PARAM or conditional jump, and no
\* line for a LABEL or a GOTO: none is translated twice or skipped, those in
\* the then-range or else-range of an IF_FALSE included, so the statement
\* lines are as many as these instructions.
C24_OneLinePerInstruction ==
    /\ [](translator.pc = "returned"
          => Len(StatementLines(translator.python.output_lines))
               = Len(SelectSeq(translator.generator.code.instructions,
                               LAMBDA inst : inst.op \notin StructuralOps)))
    /\ [][call'.op = "_translate_instruction"
          /\ At(translator.generator.code, translator.i).op \in {"LABEL", "GOTO"}
          => translator'.python.output_lines = translator.python.output_lines]_vars

\* the same for the code without conditional jumps
C24_WithoutJumps ==
    /\ translator.pc = "returned"
    /\ CountOp(translator.generator.code.instructions, "IF_FALSE") = 0
    => Len(StatementLines(translator.python.output_lines))
         = Len(SelectSeq(translator.generator.code.instructions,
                         LAMBDA inst : inst.op \notin StructuralOps))

\* the values of the PARAM instructions among the first k instructions that
\* no CALL among them has taken: a CALL takes the last arg2 of them
RECURSIVE PendingParams(_, _)
PendingParams(instructions, k) ==
    IF k = 0 THEN <<>>
    ELSE IF instructions[k].op = "PARAM"
    THEN Append(PendingParams(instructions, k - 1), instructions[k].arg1)
    ELSE IF instructions[k].op = "CALL"
    THEN SubSeq(PendingParams(instructions, k - 1), 1,
                Len(PendingParams(instructions, k - 1)) - instructions[k].arg2.n)
    ELSE PendingParams(instructions, k - 1)

\* the values of the PARAM instructions that belong to the CALL at k
OwnParams(instructions, k) ==
    SubSeq(PendingParams(instructions, k - 1),
           Len(PendingParams(instructions, k - 1)) - instructions[k].arg2.n + 1,
           Len(PendingParams(instructions, k - 1)))

\* the values of the arguments of a call expression visited from generator G
ArgumentValues(G, node) ==
    [i \in 1..Len(node.arguments) |->
        accept(emit_params(G, SubSeq(node.arguments, 1, i - 1)), node.arguments[i]).value]

\* the line of a call: `result = name(arguments)`
CallLine(instruction, arguments) ==
    str(instruction.result) \o <<" ", "=", " ">> \o str(instruction.arg1) \o <<"(">>
    \o join(<<",", " ">>, [i \in 1..Len(arguments) |-> _format_value(arguments[i])])
    \o <<")">>

\* C25: for every CALL instruction of the generated code the PythonTranslator
\* renders the call with exactly the arguments of that call expression, in
\* their order from left to right: the values of the PARAM instructions that
\* belong to this call and of no PARAM of another call, also when an argument
\* is itself a call, as in f(1, g(2)), or a compound expression.
C25_CallRenderedWithItsArguments ==
    /\ \A node \in ProgramNodes("CallExpression") :
          LET emitted == accept(CodeGenerator, node).g.code.instructions
          IN  OwnParams(emitted, Len(emitted)) = ArgumentValues(CodeGenerator, node)
    /\ translator.pc \in {"generated", "translate", "returned"}
       => \A k \in 1..Len(translator.generator.code.instructions) :
             LET instructions == translator.generator.code.instructions
             IN  instructions[k].op = "CALL"
                 => _translate_instruction(PythonTranslator, instructions[k],
                                           translator.generator.code, k - 1).output_lines
                      = <<CallLine(instructions[k], OwnParams(instructions, k))>>

\* the same for the code where no PARAM is followed by the CALL of another
\* call before its own
C25_WithoutNestedCalls ==
    /\ translator.pc \in {"generated", "translate", "returned"}
    /\ \A node \in ProgramNodes("CallExpression") :
          \A i \in 2..Len(node.arguments) : node.arguments[i].node # "CallExpression"
    => \A k \in 1..Len(translator.generator.code.instructions) :
          LET instructions == translator.generator.code.instructions
          IN  instructions[k].op = "CALL"
              => _translate_instruction(PythonTranslator, instructions[k],
                                        translator.generator.code, k - 1).output_lines
                   = <<CallLine(instructions[k], OwnParams(instructions, k))>>

\* the str operands of the generated code
StrOperands ==
    {v \in UNION {{translator.generator.code.instructions[i].arg1,
                   translator.generator.code.instructions[i].arg2} :
                     i \in 1..Len(translator.generator.code.instructions)} :
        v.type = "str"}

\* the operand of a boolean literal, as the generator writes it
BooleanOperands ==
    {G_visit_boolean_literal(CodeGenerator, BooleanLiteral(b)).value : b \in BOOLEAN}

\* Python's form of the boolean operand
CanonicalBoolean(v) ==
    IF v = G_visit_boolean_literal(CodeGenerator, BooleanLiteral(TRUE)).value
    THEN <<"T", "r", "u", "e">> ELSE <<"F", "a", "l", "s", "e">>

\* an operand other than a boolean is rendered unchanged when it is a quoted
\* literal or looks like an identifier, and quoted otherwise
RenderedVerbatimOrQuoted(v) ==
    _format_value(v) =
        IF startswith(v.s, <<"\"">>) /\ endswith(v.s, <<"\"">>) THEN v.s
        ELSE IF isidentifier(v.s) THEN v.s
        ELSE <<"\"">> \o v.s \o <<"\"">>

\* C26: _format_value renders the boolean operands true and false that the
\* generator puts in the code as True and False, leaves an operand that is
\* already a double-quoted literal unchanged, renders a name that looks like
\* an identifier unquoted, and quotes every other string.
C26_FormatValue ==
    \A v \in StrOperands :
        IF v \in BooleanOperands THEN _format_value(v) = CanonicalBoolean(v)
        ELSE RenderedVerbatimOrQuoted(v)

\* the same for the operands that are not booleans
C26_OtherOperands ==
    \A v \in StrOperands \ BooleanOperands : RenderedVerbatimOrQuoted(v)

(***************************************************************************)
(* Claims about labels, return values and constants                        *)
(***************************************************************************)
\* C27: in every instruction stream CodeGenerator.generate produces the
\* targets of the jumps are well formed: every label name is in exactly one
\* LABEL instruction, every GOTO and every IF_FALSE names a label that has a
\* LABEL instruction in the stream, and every label new_label has handed out
\* is emitted: label_counter is the number of LABEL instructions.
C27_LabelsWellFormed ==
    LET instructions == translator.generator.code.instructions
    IN  /\ \A i, j \in 1..Len(instructions) :
              /\ instructions[i].op = "LABEL"
              /\ instructions[j].op = "LABEL"
              /\ instructions[i].arg1 = instructions[j].arg1
              => i = j
        /\ \A i \in 1..Len(instructions) :
              /\ instructions[i].op = "GOTO"
                 => instructions[i].arg1 \in LabelsOf(instructions)
              /\ instructions[i].op \in {"IF_FALSE", "IF_TRUE"}
                 => instructions[i].arg2 \in LabelsOf(instructions)
        /\ {label.s : label \in LabelsOf(instructions)}
              = Labels(translator.generator.code)
        /\ translator.generator.code.label_counter = CountOp(instructions, "LABEL")

\* generate() has returned the code of a loop inside a loop
C27_Witness ==
    /\ translator.pc = "generated"
    /\ translator.generator.code.label_counter >= 5
    /\ CountOp(translator.generator.code.instructions, "GOTO") >= 2
    /\ CountOp(translator.generator.code.instructions, "IF_FALSE") >= 1

\* the RETURN instruction of a return statement, as visit_return_statement
\* emits it from a new generator
ReturnOf(node) ==
    accept(CodeGenerator, node).g.code.instructions[
        Len(accept(CodeGenerator, node).g.code.instructions)]

\* the line PythonTranslator writes for an instruction
LineOf(instruction) ==
    _translate_instruction(PythonTranslator, instruction,
                           [IntermediateCode EXCEPT !.instructions = <<instruction>>],
                           0).output_lines

\* the return statement keeps its value in the instruction, in the text of
\* the instruction and in the line of the translator
ReturnKeepsValue(node) ==
    LET v == accept(CodeGenerator, node.value).value
    IN  /\ ReturnOf(node).op = "RETURN"
        /\ ReturnOf(node).arg1 = v
        /\ Instruction_str(ReturnOf(node)) = <<"R", "E", "T", "U", "R", "N", " ">> \o str(v)
        /\ LineOf(ReturnOf(node)) = <<<<"r", "e", "t", "u", "r", "n", " ">> \o _format_value(v)>>

\* the return statement without a value is a bare RETURN and a bare return
ReturnBare(node) ==
    /\ ReturnOf(node) = Instruction("RETURN", PyNone, PyNone, PyNone)
    /\ Instruction_str(ReturnOf(node)) = <<"R", "E", "T", "U", "R", "N">>
    /\ LineOf(ReturnOf(node)) = <<<<"r", "e", "t", "u", "r", "n">>>>

\* C28: a return statement that carries a value keeps it through the
\* pipeline: for every value v, the number 0 included, `return v;` gives a
\* RETURN instruction with arg1 = v, Instruction.__str__ renders it as
\* `RETURN v` and the PythonTranslator emits `return v`; only a return
\* statement without a value is rendered as a bare RETURN / return.
C28_ReturnKeepsValue ==
    \A node \in ProgramNodes("ReturnStatement") :
        IF IsNone(node.value) THEN ReturnBare(node) ELSE ReturnKeepsValue(node)

\* the same for the return statements whose value is not the number 0
C28_ValuesOtherThanZero ==
    \A node \in ProgramNodes("ReturnStatement") :
        IF IsNone(node.value) THEN ReturnBare(node)
        ELSE node.value # Num0 => ReturnKeepsValue(node)

\* the positions of the CONST tokens that introduce the only declaration of
\* their name in the source text
ConstDeclarations ==
    {i \in 1..(Len(lexer.tokens) - 1) :
        /\ lexer.tokens[i].type = "CONST"
        /\ lexer.tokens[i + 1].type = "IDENTIFIER"
        /\ \A j \in 1..(Len(lexer.tokens) - 1) :
              /\ lexer.tokens[j].type \in {"VAR", "CONST"}
              /\ lexer.tokens[j + 1].value = lexer.tokens[i + 1].value
              => j = i}

\* the positions after the declaration at i where its name is assigned to
AssignmentsAfter(i) ==
    {j \in (i + 2)..(Len(lexer.tokens) - 1) :
        /\ lexer.tokens[j].type = "IDENTIFIER"
        /\ lexer.tokens[j].value = lexer.tokens[i + 1].value
        /\ lexer.tokens[j + 1].type = "ASSIGN"}

\* the symbols of the table with this name
SymbolsNamed(name) ==
    {k \in 1..Len(symbol_table.all_symbols) : symbol_table.all_symbols[k].name = name}

\* C29: a declaration whose introducing token the Lexer classified as CONST
\* always creates a symbol of kind CONSTANT, for every spelling the Lexer
\* accepts as that keyword (const, CONST, Const, ...), so every later
\* assignment to that name is rejected as the modification of a constant.
C29_ConstKeywordMakesConstant ==
    call.op = "build"
    => \A i \in ConstDeclarations :
          /\ SymbolsNamed(lexer.tokens[i + 1].value) # {}
          /\ \A k \in SymbolsNamed(lexer.tokens[i + 1].value) :
                symbol_table.all_symbols[k].symbol_type = "CONSTANT"
          /\ Cardinality({e \in 1..Len(builder.errors) :
                             /\ builder.errors[e].text = TextConstant
                             /\ builder.errors[e].name = lexer.tokens[i + 1].value})
                = Cardinality(AssignmentsAfter(i))

\* the same for the declarations introduced by the spelling `const`
C29_LowerCaseConst ==
    call.op = "build"
    => \A i \in ConstDeclarations :
          lexer.tokens[i].value = str_const
          => /\ SymbolsNamed(lexer.tokens[i + 1].value) # {}
             /\ \A k \in SymbolsNamed(lexer.tokens[i + 1].value) :
                   symbol_table.all_symbols[k].symbol_type = "CONSTANT"
             /\ Cardinality({e \in 1..Len(builder.errors) :
                                /\ builder.errors[e].text = TextConstant
                                /\ builder.errors[e].name = lexer.tokens[i + 1].value})
                   = Cardinality(AssignmentsAfter(i))

(***************************************************************************)
(* Termination of Parser.parse                                             *)
(***************************************************************************)
\* C30: Parser.parse terminates on every token list that ends in EOF: each
\* iteration of its loop, a declaration parsed or a ParseError followed by
\* synchronize(), moves the cursor strictly forward, the cursor never moves
\* past the EOF token, an iteration starts only when the cursor is not at
\* EOF, and once the cursor is at EOF the loop exits.
C30_ParseTerminates ==
    /\ [](/\ parser.current < Len(parser.tokens)
          /\ \A i \in 1..parser.current : parser.tokens[i].type # "EOF")
    /\ [][call'.op = "declaration"
          => /\ ~is_at_end(parser)
             /\ parser'.pc = "parse" => parser'.current > parser.current]_vars
    /\ [][parser.pc = "parse" /\ is_at_end(parser) => parser'.pc = "returned"]_vars
    /\ <>(parser.pc \in {"returned", "raised"})

\* parse has returned after an iteration that recorded a ParseError and
\* synchronized and an iteration that parsed a declaration
C30_Witness ==
    /\ parser.pc = "returned"
    /\ is_at_end(parser)
    /\ parser.errors # <<>>
    /\ parser.statements # <<>>
    /\ parser.current >= 3

====
